---- MODULE Spec2Model ----
(***************************************************************************)
(* Plastic Manufacturing API: the record-keeping REST service for machines, *)
(* production runs, employees and quality checks.                          *)
(*                                                                         *)
(* Every route handler is a function of the store it reads and the request *)
(* it receives; it yields the store it leaves behind and the response it   *)
(* sends.  The actions apply the handlers to requests drawn from small     *)
(* input sets.  JavaScript strings that the code measures or matches       *)
(* against a pattern are tuples of one-character strings, so that length,  *)
(* pattern and case conversions are computed and not assumed.              *)
(***************************************************************************)
EXTENDS Integers, Sequences, FiniteSets, TLC

VARIABLES
    db,         \* the document database: one collection per mongoose model
    employees,  \* the in-memory list of routes/employees.js
    last,       \* the response to the latest request (and the route it hit)
    inflight,   \* requests under way: run writes that await their save, and
                \* POST /employees requests with the answers they got
    sessions    \* the session store: the identity each session cookie carries

vars == <<db, employees, last, inflight, sessions>>

-----------------------------------------------------------------------------
(* Bounds of the model.                                                    *)

\* ObjectIds the database hands out before creation stops.
MaxOid == 4

\* Records the in-memory list may hold.
MaxEmployees == 3

\* Production-run writes that may be awaiting their save at one time.
MaxInflight == 1

-----------------------------------------------------------------------------
(* JavaScript values.                                                      *)

Has(b, f) == f \in DOMAIN b

\* body[f] is truthy, for a field that holds text as a tuple of characters:
\* undefined and '' are falsy.
TruthyStr(b, f) == Has(b, f) /\ b[f] # <<>>

\* body[f] is truthy, for a field that holds a word of an enumeration (kept
\* whole, since the code only compares it): undefined and '' are falsy.
TruthyWord(b, f) == Has(b, f) /\ b[f] # ""

\* body[f] is truthy, for a field that holds a number: undefined and 0 are falsy.
TruthyNum(b, f) == Has(b, f) /\ b[f] # 0

\* An object restricted to the keys in K.
Pick(b, K) == [f \in (DOMAIN b) \cap K |-> b[f]]

\* {...a, ...b}: the keys of b win.
Spread(a, b) == b @@ a

UpperAlnumHyphen ==
    {"A","B","C","D","E","F","G","H","I","J","K","L","M","N","O","P","Q","R",
     "S","T","U","V","W","X","Y","Z","0","1","2","3","4","5","6","7","8","9","-"}

\* /^[A-Z0-9-]+$/.test(s)
IdRegexTest(s) == Len(s) >= 1 /\ \A i \in 1..Len(s) : s[i] \in UpperAlnumHyphen

-----------------------------------------------------------------------------
(* Identifiers of stored documents.                                        *)

\* The n-th ObjectId the database generates (24 hexadecimal characters).
Oid(n) == <<"oid", n>>

\* A path segment that is not an ObjectId.
InvalidId == <<"str", "invalid-id">>

\* id.match(/^[0-9a-fA-F]{24}$/)
IsObjectId(id) == id[1] = "oid"

Oids == {Oid(n) : n \in 1..MaxOid}

\* One well-formed ObjectId the database never generates.
GhostOid == Oid(0)

-----------------------------------------------------------------------------
(* Responses.                                                              *)

NoDoc == <<>>

\* res.status(st).json({error: err, ...}); fields is the list of field names
\* the body enumerates (missing fields, failed validators), doc the document
\* the body carries.
Res(st, err, flds, doc) == [status |-> st, error |-> err, fields |-> flds, doc |-> doc]

Fail(st, err) == Res(st, err, {}, NoDoc)

Ok(st, doc) == Res(st, "", {}, doc)

\* What a handler leaves behind: the store and the response.
Out(store, res) == [store |-> store, res |-> res]

\* What the log keeps of a request and its response: the route, the identity
\* the request's session carried, whether the route's handler ran, and the
\* status and error of the body.
Logged(route, user, handler, res) ==
    [route |-> route, user |-> user, handler |-> handler, status |-> res.status,
     error |-> res.error]

-----------------------------------------------------------------------------
(* Sessions and the authentication gate.                                   *)

NoUser == <<>>

\* Identities the sign-in exchange may establish: profile.emails[0].value
\* split at its '@', or no e-mail at all.
Users ==
    { [emails |-> <<e>>] : e \in {<<"root", "admin.com">>, <<"lead", "manager.com">>,
                                  <<"test", "example.com">>} }
    \cup { [emails |-> <<>>] }

\* The identity the test harness attaches for the header x-test-auth: true.
TestUser == [emails |-> << <<"test", "example.com">> >>]

\* What the session of a request may carry.
Callers == {NoUser, TestUser}

\* The cookies the clients of the model present.
SessionIds == {"s1", "s2"}

\* The session store before any sign-in: no session carries an identity.
NoSessions == [s \in SessionIds |-> NoUser]

NoResponse == Logged("", NoUser, FALSE, Fail(0, ""))

\* req.isAuthenticated()
IsAuthenticatedReq(sess) == sess # NoUser

\* The gate as it would be if it sent the unauthenticated to the sign-in flow.
MutIsAuthenticatedRedirects(sess) ==
    IF IsAuthenticatedReq(sess)
    THEN [next |-> TRUE, res |-> Fail(0, "")]
    ELSE [next |-> FALSE, res |-> Res(302, "", {}, [location |-> "/auth/google"])]

MutIsAuthenticatedOpen(sess) == [next |-> TRUE, res |-> Fail(0, "")]

\* The gate either passes control on (next) or answers itself.
isAuthenticated(sess) ==
    IF IsAuthenticatedReq(sess)
    THEN [next |-> TRUE, res |-> Fail(0, "")]
    ELSE [next |-> FALSE, res |-> Fail(401, "Unauthorized")]

\* userEmail.endsWith('@' + domain), for req.user.emails?.[0]?.value || ''
EmailEndsWith(user, domain) ==
    Len(user.emails) >= 1 /\ user.emails[1][2] = domain

Roles == {"admin", "manager", "operator"}

MutHasRoleStrict(role, sess) ==
    IF ~IsAuthenticatedReq(sess)
    THEN [next |-> FALSE, res |-> Fail(401, "Unauthorized")]
    ELSE IF role = "admin" /\ EmailEndsWith(sess, "admin.com")
    THEN [next |-> TRUE, res |-> Fail(0, "")]
    ELSE IF role = "manager" /\ (EmailEndsWith(sess, "admin.com")
                                 \/ EmailEndsWith(sess, "manager.com"))
    THEN [next |-> TRUE, res |-> Fail(0, "")]
    ELSE [next |-> FALSE, res |-> Fail(403, "Forbidden")]

hasRole(role, sess) ==
    IF ~IsAuthenticatedReq(sess)
    THEN [next |-> FALSE, res |-> Fail(401, "Unauthorized")]
    ELSE IF role = "admin" /\ EmailEndsWith(sess, "admin.com")
    THEN [next |-> TRUE, res |-> Fail(0, "")]
    ELSE IF role = "manager" /\ (EmailEndsWith(sess, "admin.com")
                                 \/ EmailEndsWith(sess, "manager.com"))
    THEN [next |-> TRUE, res |-> Fail(0, "")]
    ELSE [next |-> TRUE, res |-> Fail(0, "")]

-----------------------------------------------------------------------------
(* The document database, as mongoose drives it.                           *)

EmptyDb == [machines |-> {}, runs |-> {}, checks |-> {}, employees |-> {}, nextOid |-> 1]

\* Model.findById(id): the set holding the document, or the empty set.
FindById(coll, id) == {d \in coll : d._id = id}

Exists(coll, id) == FindById(coll, id) # {}

TheDoc(coll, id) == CHOOSE d \in coll : d._id = id

\* new Model(body): schema paths only (strict mode drops the rest), defaults
\* for the paths the body leaves undefined, a fresh _id, and the creation
\* timestamp, which is the tick of the insert.
NewDocument(body, paths, defaults, n) ==
    Spread(Spread(defaults, Pick(body, paths)), [_id |-> Oid(n), createdAt |-> n])

\* The unique index on `key` rejects doc: another document holds its value.
DuplicateKey(coll, doc, key) ==
    Has(doc, key) /\ \E d \in coll : d._id # doc._id /\ d[key] = doc[key]

\* The outcome of a write through mongoose: the error thrown (name, code and
\* the paths that failed validation) and the collection afterwards.
Written(coll) == [name |-> "", code |-> 0, paths |-> {}, coll |-> coll]

ValidationError(coll, paths) ==
    [name |-> "ValidationError", code |-> 0, paths |-> paths, coll |-> coll]

MongoServerError(coll, keys) ==
    [name |-> "MongoServerError", code |-> 11000, paths |-> keys, coll |-> coll]

MutSaveNoUniqueIndex(coll, doc, invalid, uniqueKeys) ==
    IF invalid # {} THEN ValidationError(coll, invalid)
    ELSE Written(coll \cup {doc})

\* doc.save() of a new document: validation first, then the insert, which
\* the unique indexes may reject with E11000.
Save(coll, doc, invalid, uniqueKeys) ==
    IF invalid # {} THEN ValidationError(coll, invalid)
    ELSE IF \E k \in uniqueKeys : DuplicateKey(coll, doc, k)
    THEN MongoServerError(coll, {k \in uniqueKeys : DuplicateKey(coll, doc, k)})
    ELSE Written(coll \cup {doc})

\* Model.findByIdAndUpdate(id, update, {new: true, runValidators: true}):
\* the update validators run on the paths of the update, then the matched
\* document (if any) gets those paths set, subject to the unique indexes.
\* found tells whether a document matched.
FindByIdAndUpdate(coll, id, update, invalid, uniqueKeys) ==
    IF invalid # {} THEN ValidationError(coll, invalid) @@ [found |-> FALSE]
    ELSE IF ~Exists(coll, id) THEN Written(coll) @@ [found |-> FALSE]
    ELSE LET old == TheDoc(coll, id)
             new == Spread(old, update)
         IN  IF \E k \in uniqueKeys : DuplicateKey(coll, new, k)
             THEN MongoServerError(coll, {k \in uniqueKeys : DuplicateKey(coll, new, k)})
                      @@ [found |-> FALSE]
             ELSE Written((coll \ {old}) \cup {new}) @@ [found |-> TRUE]

\* Model.findByIdAndDelete(id): the collection without the document.
FindByIdAndDelete(coll, id) == coll \ FindById(coll, id)

\* A required String path fails when undefined or empty.
RequiredStrFails(doc, p) == ~Has(doc, p) \/ doc[p] = <<>>

\* The same for a path that holds a word of an enumeration.
RequiredWordFails(doc, p) == ~Has(doc, p) \/ doc[p] = ""

\* A required path of another type fails when undefined.
RequiredFails(doc, p) == ~Has(doc, p)

\* An enum path fails when it holds a value outside the set.
EnumFails(doc, p, S) == Has(doc, p) /\ doc[p] \notin S

-----------------------------------------------------------------------------
(* models/machine.js                                                       *)

MachineStatuses == {"operational", "maintenance", "down", "idle"}

MachinePaths == {"machineId", "name", "status"}

MachineDefaults == [status |-> "operational"]

\* Validators of machineSchema that fail on a new document.
MachineInvalid(doc) ==
    {p \in {"machineId", "name"} : RequiredStrFails(doc, p)}
    \cup {p \in {"status"} : EnumFails(doc, p, MachineStatuses)}

\* Validators of machineSchema that fail on an update.
MachineUpdateInvalid(update) ==
    {p \in {"machineId", "name"} : Has(update, p) /\ RequiredStrFails(update, p)}
    \cup {p \in {"status"} : EnumFails(update, p, MachineStatuses)}

-----------------------------------------------------------------------------
(* routes/machines.js                                                      *)

\* GET /machines
MachinesList(d) == Out(d, Ok(200, d.machines))

\* GET /machines/:id
MachinesGetById(d, id) ==
    IF ~IsObjectId(id) THEN Out(d, Fail(400, "Invalid ID format"))
    ELSE IF ~Exists(d.machines, id) THEN Out(d, Fail(404, "Machine not found"))
    ELSE Out(d, Ok(200, TheDoc(d.machines, id)))

\* The fields `missingFields` collects.
MachinesMissing(body) == {f \in {"machineId", "name"} : ~TruthyStr(body, f)}

\* POST /machines as it would be if the schema defaulted status to 'idle'.
MutMachinesPostDefaultIdle(d, body) ==
    IF MachinesMissing(body) # {}
    THEN Out(d, Res(400, "Missing required fields", MachinesMissing(body), NoDoc))
    ELSE IF ~IdRegexTest(body.machineId)
    THEN Out(d, Fail(400, "Invalid machine ID format"))
    ELSE IF Len(body.name) < 2
    THEN Out(d, Fail(400, "Invalid machine name"))
    ELSE IF TruthyWord(body, "status") /\ body.status \notin MachineStatuses
    THEN Out(d, Res(400, "Invalid status", {"status"}, NoDoc))
    ELSE LET machine == NewDocument(body, MachinePaths, [status |-> "idle"], d.nextOid)
             w == Save(d.machines, machine, MachineInvalid(machine), {"machineId"})
         IN  IF w.code = 11000
             THEN Out(d, Res(400, "Duplicate entry", w.paths, NoDoc))
             ELSE IF w.name = "ValidationError"
             THEN Out(d, Res(400, "Validation failed", w.paths, NoDoc))
             ELSE Out([d EXCEPT !.machines = w.coll, !.nextOid = @ + 1],
                      Ok(201, machine))

\* POST /machines
MachinesPost(d, body) ==
    IF MachinesMissing(body) # {}
    THEN Out(d, Res(400, "Missing required fields", MachinesMissing(body), NoDoc))
    ELSE IF ~IdRegexTest(body.machineId)
    THEN Out(d, Fail(400, "Invalid machine ID format"))
    ELSE IF Len(body.name) < 2
    THEN Out(d, Fail(400, "Invalid machine name"))
    ELSE IF TruthyWord(body, "status") /\ body.status \notin MachineStatuses
    THEN Out(d, Res(400, "Invalid status", {"status"}, NoDoc))
    ELSE LET machine == NewDocument(body, MachinePaths, MachineDefaults, d.nextOid)
             w == Save(d.machines, machine, MachineInvalid(machine), {"machineId"})
         IN  IF w.code = 11000
             THEN Out(d, Res(400, "Duplicate entry", w.paths, NoDoc))
             ELSE IF w.name = "ValidationError"
             THEN Out(d, Res(400, "Validation failed", w.paths, NoDoc))
             ELSE Out([d EXCEPT !.machines = w.coll, !.nextOid = @ + 1],
                      Ok(201, machine))

\* PUT /machines/:id
MachinesPut(d, id, body) ==
    IF ~IsObjectId(id) THEN Out(d, Fail(400, "Invalid ID format"))
    ELSE IF DOMAIN body = {} THEN Out(d, Fail(400, "Empty request body"))
    ELSE IF TruthyStr(body, "machineId") /\ ~IdRegexTest(body.machineId)
    THEN Out(d, Fail(400, "Invalid machine ID format"))
    ELSE IF TruthyStr(body, "name") /\ Len(body.name) < 2
    THEN Out(d, Fail(400, "Invalid machine name"))
    ELSE IF TruthyWord(body, "status") /\ body.status \notin MachineStatuses
    THEN Out(d, Res(400, "Invalid status", {"status"}, NoDoc))
    ELSE LET update == Pick(body, MachinePaths)
             w == FindByIdAndUpdate(d.machines, id, update,
                                    MachineUpdateInvalid(update), {"machineId"})
         IN  IF w.code = 11000
             THEN Out(d, Res(400, "Duplicate entry", w.paths, NoDoc))
             ELSE IF w.name = "ValidationError"
             THEN Out(d, Res(400, "Validation failed", w.paths, NoDoc))
             ELSE IF ~w.found
             THEN Out(d, Fail(404, "Machine not found"))
             ELSE Out([d EXCEPT !.machines = w.coll], Ok(200, TheDoc(w.coll, id)))

\* DELETE /machines/:id as it would be with a cascade to the runs of the machine.
MutMachinesDeleteCascade(d, id) ==
    IF ~IsObjectId(id) THEN Out(d, Fail(400, "Invalid ID format"))
    ELSE IF ~Exists(d.machines, id) THEN Out(d, Fail(404, "Machine not found"))
    ELSE Out([d EXCEPT !.machines = FindByIdAndDelete(@, id),
                       !.runs = {r \in @ : r.machineId # id}],
             Ok(200, Pick(TheDoc(d.machines, id), {"_id", "machineId", "name"})))

\* DELETE /machines/:id
MachinesDelete(d, id) ==
    IF ~IsObjectId(id) THEN Out(d, Fail(400, "Invalid ID format"))
    ELSE IF ~Exists(d.machines, id) THEN Out(d, Fail(404, "Machine not found"))
    ELSE Out([d EXCEPT !.machines = FindByIdAndDelete(@, id)],
             Ok(200, Pick(TheDoc(d.machines, id), {"_id", "machineId", "name"})))

-----------------------------------------------------------------------------
(* models/productionRun.js                                                 *)

RunStatuses == {"scheduled", "running", "completed", "paused", "cancelled"}

\* The paths of productionRunSchema (startTime, endTime and operator are
\* never submitted here).
ProductionRunPaths ==
    {"runId", "machineId", "partNumber", "partName", "targetQty", "actualQty", "status"}

ProductionRunDefaults == [actualQty |-> 0, status |-> "scheduled"]

\* targetQty: {min: 1}
TargetQtyMin == 1

\* actualQty: {min: 0}
ActualQtyMin == 0

\* Validators of productionRunSchema that fail on a new document.
ProductionRunInvalid(doc) ==
    {p \in {"runId", "partNumber", "partName"} : RequiredStrFails(doc, p)}
    \cup {p \in {"machineId", "targetQty"} : RequiredFails(doc, p)}
    \cup {p \in {"targetQty"} : Has(doc, p) /\ doc[p] < TargetQtyMin}
    \cup {p \in {"actualQty"} : Has(doc, p) /\ doc[p] < ActualQtyMin}
    \cup {p \in {"status"} : EnumFails(doc, p, RunStatuses)}

\* The update validators as they would be without the min of targetQty and
\* actualQty.
MutProductionRunUpdateInvalidNoMin(update) ==
    {p \in {"runId", "partNumber", "partName"} :
        Has(update, p) /\ RequiredStrFails(update, p)}
    \cup {p \in {"status"} : EnumFails(update, p, RunStatuses)}

\* Validators of productionRunSchema that fail on an update.
ProductionRunUpdateInvalid(update) ==
    {p \in {"runId", "partNumber", "partName"} :
        Has(update, p) /\ RequiredStrFails(update, p)}
    \cup {p \in {"targetQty"} : Has(update, p) /\ update[p] < TargetQtyMin}
    \cup {p \in {"actualQty"} : Has(update, p) /\ update[p] < ActualQtyMin}
    \cup {p \in {"status"} : EnumFails(update, p, RunStatuses)}

\* query.populate(path): the reference is replaced by the document it
\* names, or by null (<<>>) when no such document is stored.
Populate(doc, path, coll) ==
    IF ~Has(doc, path) THEN doc
    ELSE IF Exists(coll, doc[path])
    THEN [doc EXCEPT ![path] = TheDoc(coll, doc[path])]
    ELSE [doc EXCEPT ![path] = <<>>]

\* populate(path, select): the referenced document cut down to the
\* selected fields (and its _id).
PopulateSelect(doc, path, coll, select) ==
    IF ~Has(doc, path) THEN doc
    ELSE IF Exists(coll, doc[path])
    THEN [doc EXCEPT ![path] = Pick(TheDoc(coll, doc[path]), select \cup {"_id"})]
    ELSE [doc EXCEPT ![path] = <<>>]

-----------------------------------------------------------------------------
(* routes/productionRuns.js                                                *)

\* GET /production-runs?status=&machineId=
RunsList(d, query) ==
    LET hit(r) == /\ (TruthyWord(query, "status") => r.status = query.status)
                  /\ (Has(query, "machineId") => r.machineId = query.machineId)
    IN  Out(d, Ok(200, {Populate(r, "machineId", d.machines) : r \in {x \in d.runs : hit(x)}}))

\* GET /production-runs/:id
RunsGetById(d, id) ==
    IF ~IsObjectId(id) THEN Out(d, Fail(400, "Invalid ID format"))
    ELSE IF ~Exists(d.runs, id) THEN Out(d, Fail(404, "Production run not found"))
    ELSE Out(d, Ok(200, Populate(TheDoc(d.runs, id), "machineId", d.machines)))

RunsRequiredFields ==
    {"runId", "machineId", "partNumber", "partName", "material", "targetQty"}

\* !req.body[field]
RunsFieldFalsy(body, f) ==
    IF f = "targetQty" THEN ~TruthyNum(body, f)
    ELSE IF f = "machineId" THEN ~Has(body, f)
    ELSE ~TruthyStr(body, f)

\* requiredFields.filter(field => !req.body[field])
RunsMissing(body) == {f \in RunsRequiredFields : RunsFieldFalsy(body, f)}

\* POST /production-runs, up to and including `await Machine.findById`:
\* the response it sends there, or status 0 when it goes on.
RunsPostCheck(d, body) ==
    IF RunsMissing(body) # {}
    THEN Res(400, "Missing required fields", RunsMissing(body), NoDoc)
    ELSE IF ~IdRegexTest(body.runId)
    THEN Fail(400, "Invalid run ID format")
    ELSE IF ~IsObjectId(body.machineId)
    THEN Fail(500, "Failed to create production run")
    ELSE IF ~Exists(d.machines, body.machineId)
    THEN Res(404, "Machine not found", {"machineId"}, NoDoc)
    ELSE Fail(0, "")

\* POST /production-runs, from the checks that follow the machine lookup to
\* the response: validation, run.save() and run.populate('machineId').
RunsPostSave(d, body) ==
    IF Len(body.partNumber) < 2 THEN Out(d, Fail(400, "Invalid part number"))
    ELSE IF Len(body.partName) < 2 THEN Out(d, Fail(400, "Invalid part name"))
    ELSE IF Len(body.material) < 2 THEN Out(d, Fail(400, "Invalid material"))
    ELSE IF body.targetQty <= 0 THEN Out(d, Fail(400, "Invalid target quantity"))
    ELSE IF TruthyNum(body, "actualQty") /\ body.actualQty < 0
    THEN Out(d, Fail(400, "Invalid actual quantity"))
    ELSE IF TruthyWord(body, "status") /\ body.status \notin RunStatuses
    THEN Out(d, Res(400, "Invalid status", {"status"}, NoDoc))
    ELSE LET run == NewDocument(body, ProductionRunPaths, ProductionRunDefaults, d.nextOid)
             w == Save(d.runs, run, ProductionRunInvalid(run), {"runId"})
         IN  IF w.code = 11000
             THEN Out(d, Res(400, "Duplicate entry", w.paths, NoDoc))
             ELSE IF w.name = "ValidationError"
             THEN Out(d, Res(400, "Validation failed", w.paths, NoDoc))
             ELSE Out([d EXCEPT !.runs = w.coll, !.nextOid = @ + 1],
                      Ok(201, Populate(run, "machineId", d.machines)))

\* POST /production-runs, when no other request runs between its awaits.
RunsPost(d, body) ==
    IF RunsPostCheck(d, body).status # 0 THEN Out(d, RunsPostCheck(d, body))
    ELSE RunsPostSave(d, body)

\* PUT /production-runs/:id as it would be if it also looked up the machine
\* the stored run refers to.
MutRunsPutCheckStoredRef(d, id, body) ==
    IF ~IsObjectId(id) THEN Fail(400, "Invalid ID format")
    ELSE IF DOMAIN body = {} THEN Fail(400, "Empty request body")
    ELSE IF TruthyStr(body, "runId") /\ ~IdRegexTest(body.runId)
    THEN Fail(400, "Invalid run ID format")
    ELSE IF Has(body, "machineId") /\ ~IsObjectId(body.machineId)
    THEN Fail(400, "Failed to update production run")
    ELSE IF Has(body, "machineId") /\ ~Exists(d.machines, body.machineId)
    THEN Res(404, "Machine not found", {"machineId"}, NoDoc)
    ELSE IF Exists(d.runs, id) /\ ~Exists(d.machines, TheDoc(d.runs, id).machineId)
    THEN Res(404, "Machine not found", {"machineId"}, NoDoc)
    ELSE Fail(0, "")

\* PUT /production-runs/:id, up to and including `await Machine.findById`.
RunsPutCheck(d, id, body) ==
    IF ~IsObjectId(id) THEN Fail(400, "Invalid ID format")
    ELSE IF DOMAIN body = {} THEN Fail(400, "Empty request body")
    ELSE IF TruthyStr(body, "runId") /\ ~IdRegexTest(body.runId)
    THEN Fail(400, "Invalid run ID format")
    ELSE IF Has(body, "machineId") /\ ~IsObjectId(body.machineId)
    THEN Fail(400, "Failed to update production run")
    ELSE IF Has(body, "machineId") /\ ~Exists(d.machines, body.machineId)
    THEN Res(404, "Machine not found", {"machineId"}, NoDoc)
    ELSE Fail(0, "")

\* PUT /production-runs/:id, from the checks that follow the machine lookup
\* to the response.
RunsPutSave(d, id, body) ==
    IF TruthyStr(body, "partNumber") /\ Len(body.partNumber) < 2
    THEN Out(d, Fail(400, "Invalid part number"))
    ELSE IF TruthyStr(body, "partName") /\ Len(body.partName) < 2
    THEN Out(d, Fail(400, "Invalid part name"))
    ELSE IF TruthyStr(body, "material") /\ Len(body.material) < 2
    THEN Out(d, Fail(400, "Invalid material"))
    ELSE IF TruthyNum(body, "targetQty") /\ body.targetQty <= 0
    THEN Out(d, Fail(400, "Invalid target quantity"))
    ELSE IF TruthyNum(body, "actualQty") /\ body.actualQty < 0
    THEN Out(d, Fail(400, "Invalid actual quantity"))
    ELSE IF TruthyWord(body, "status") /\ body.status \notin RunStatuses
    THEN Out(d, Res(400, "Invalid status", {"status"}, NoDoc))
    ELSE LET update == Pick(body, ProductionRunPaths)
             w == FindByIdAndUpdate(d.runs, id, update,
                                    ProductionRunUpdateInvalid(update), {"runId"})
         IN  IF w.code = 11000
             THEN Out(d, Res(400, "Duplicate entry", w.paths, NoDoc))
             ELSE IF w.name = "ValidationError"
             THEN Out(d, Res(400, "Validation failed", w.paths, NoDoc))
             ELSE IF ~w.found
             THEN Out(d, Fail(404, "Production run not found"))
             ELSE Out([d EXCEPT !.runs = w.coll],
                      Ok(200, Populate(TheDoc(w.coll, id), "machineId", d.machines)))

\* PUT /production-runs/:id, when no other request runs between its awaits.
RunsPut(d, id, body) ==
    IF RunsPutCheck(d, id, body).status # 0 THEN Out(d, RunsPutCheck(d, id, body))
    ELSE RunsPutSave(d, id, body)

\* DELETE /production-runs/:id
RunsDelete(d, id) ==
    IF ~IsObjectId(id) THEN Out(d, Fail(400, "Invalid ID format"))
    ELSE IF ~Exists(d.runs, id) THEN Out(d, Fail(404, "Production run not found"))
    ELSE Out([d EXCEPT !.runs = FindByIdAndDelete(@, id)],
             Ok(200, Pick(TheDoc(d.runs, id), {"_id", "runId", "partName", "partNumber"})))

-----------------------------------------------------------------------------
(* Text conversions and patterns of the employee and quality-check models. *)

UpperLetters ==
    <<"A","B","C","D","E","F","G","H","I","J","K","L","M","N","O","P","Q","R",
      "S","T","U","V","W","X","Y","Z">>

LowerLetters ==
    <<"a","b","c","d","e","f","g","h","i","j","k","l","m","n","o","p","q","r",
      "s","t","u","v","w","x","y","z">>

Range(f) == {f[i] : i \in DOMAIN f}

\* \w
WordChars ==
    Range(UpperLetters) \cup Range(LowerLetters)
    \cup {"0","1","2","3","4","5","6","7","8","9","_"}

\* \s
SpaceChars == {" "}

\* c.toLowerCase()
LowerChar(c) ==
    IF c \in Range(UpperLetters)
    THEN LowerLetters[CHOOSE i \in DOMAIN UpperLetters : UpperLetters[i] = c]
    ELSE c

\* s.toLowerCase(), the `lowercase: true` setter
ToLowerCase(s) == [i \in DOMAIN s |-> LowerChar(s[i])]

\* s.trim(), the `trim: true` setter
Trim(s) ==
    LET keep == {i \in DOMAIN s : s[i] \notin SpaceChars}
    IN  IF keep = {} THEN <<>>
        ELSE LET lo == CHOOSE i \in keep : \A j \in keep : i <= j
                 hi == CHOOSE i \in keep : \A j \in keep : j <= i
             IN  SubSeq(s, lo, hi)

\* /^\w+([.-]?\w+)*$/.test(t)
WordsJoined(t) ==
    /\ Len(t) >= 1
    /\ t[1] \in WordChars /\ t[Len(t)] \in WordChars
    /\ \A i \in 1..Len(t) : t[i] \in WordChars \cup {".", "-"}
    /\ \A i \in 1..(Len(t) - 1) : t[i] \in WordChars \/ t[i + 1] \in WordChars

\* /^\w+([.-]?\w+)*@\w+([.-]?\w+)*(\.\w{2,3})+$/.test(s), the `match` of
\* employeeSchema.email
SchemaEmailTest(s) ==
    \E i \in 1..Len(s) :
        /\ s[i] = "@"
        /\ WordsJoined(SubSeq(s, 1, i - 1))
        /\ \E j \in (i + 1)..Len(s) :
              /\ s[j] = "."
              /\ Len(s) - j \in {2, 3}
              /\ \A k \in (j + 1)..Len(s) : s[k] \in WordChars
              /\ WordsJoined(SubSeq(s, i + 1, j - 1))

\* /^[^\s@]+@[^\s@]+\.[^\s@]+$/.test(s), the emailRegex of routes/employees.js
RouteEmailTest(s) ==
    \E i \in 2..Len(s) :
        /\ s[i] = "@"
        /\ \A k \in 1..Len(s) : s[k] \notin SpaceChars /\ (s[k] = "@" => k = i)
        /\ \E j \in (i + 2)..(Len(s) - 1) : s[j] = "."

\* The setters of a schema applied to the paths an object carries.
ApplySetters(b, trimmed, lowered) ==
    [f \in DOMAIN b |->
        IF f \in lowered THEN ToLowerCase(Trim(b[f]))
        ELSE IF f \in trimmed THEN Trim(b[f])
        ELSE b[f]]

-----------------------------------------------------------------------------
(* models/employee.js                                                      *)

Departments == {"Production", "Quality", "Maintenance", "Shipping", "Administration"}

EmployeeRoles ==
    {"Operator", "Supervisor", "Manager", "Technician", "Inspector", "Administrator"}

Shifts == {"Morning", "Evening", "Night", "Flexible"}

EmployeePaths ==
    {"employeeId", "firstName", "lastName", "email", "department", "role", "shift",
     "assignedMachine"}

EmployeeDefaults == [shift |-> "Morning", assignedMachine |-> <<>>]

\* firstName, lastName: {minlength: 2}
NameMinLength == 2

\* employeeSchema casts and sets: strict paths, trim and lowercase.
EmployeeCast(body) ==
    ApplySetters(Pick(body, EmployeePaths), {"employeeId", "firstName", "lastName"},
                 {"email"})

\* Validators of employeeSchema that fail on a new document.
EmployeeInvalid(doc) ==
    {p \in {"employeeId", "firstName", "lastName", "email"} : RequiredStrFails(doc, p)}
    \cup {p \in {"firstName", "lastName"} :
            Has(doc, p) /\ doc[p] # <<>> /\ Len(doc[p]) < NameMinLength}
    \cup {p \in {"email"} : Has(doc, p) /\ doc[p] # <<>> /\ ~SchemaEmailTest(doc[p])}
    \cup {p \in {"department", "role"} : RequiredWordFails(doc, p)}
    \cup {p \in {"department"} : EnumFails(doc, p, Departments)}
    \cup {p \in {"role"} : EnumFails(doc, p, EmployeeRoles)}
    \cup {p \in {"shift"} : EnumFails(doc, p, Shifts)}
    \cup {p \in {"assignedMachine"} :
            Has(doc, p) /\ doc[p] # <<>> /\ ~IsObjectId(doc[p])}

\* Validators of employeeSchema that fail on an update.
EmployeeUpdateInvalid(update) ==
    {p \in {"employeeId", "firstName", "lastName", "email"} :
        Has(update, p) /\ RequiredStrFails(update, p)}
    \cup {p \in {"firstName", "lastName"} :
            Has(update, p) /\ update[p] # <<>> /\ Len(update[p]) < NameMinLength}
    \cup {p \in {"email"} :
            Has(update, p) /\ update[p] # <<>> /\ ~SchemaEmailTest(update[p])}
    \cup {p \in {"department", "role"} : Has(update, p) /\ RequiredWordFails(update, p)}
    \cup {p \in {"department"} : EnumFails(update, p, Departments)}
    \cup {p \in {"role"} : EnumFails(update, p, EmployeeRoles)}
    \cup {p \in {"shift"} : EnumFails(update, p, Shifts)}
    \cup {p \in {"assignedMachine"} :
            Has(update, p) /\ update[p] # <<>> /\ ~IsObjectId(update[p])}

-----------------------------------------------------------------------------
(* controllers/employees.js                                                *)

EmployeeSelect == {"name", "machineId", "status"}

\* getAllEmployees (the order of the list is left out)
getAllEmployees(d) ==
    Out(d, Ok(200, {PopulateSelect(e, "assignedMachine", d.machines, EmployeeSelect) :
                       e \in d.employees}))

\* getEmployeeById
getEmployeeById(d, id) ==
    IF ~IsObjectId(id) THEN Out(d, Fail(500, "Failed to fetch employee"))
    ELSE IF ~Exists(d.employees, id) THEN Out(d, Fail(404, "Employee not found"))
    ELSE Out(d, Ok(200, PopulateSelect(TheDoc(d.employees, id), "assignedMachine",
                                       d.machines, EmployeeSelect)))

\* createEmployee
createEmployee(d, body) ==
    LET employee == NewDocument(EmployeeCast(body), EmployeePaths, EmployeeDefaults,
                                d.nextOid)
        w == Save(d.employees, employee, EmployeeInvalid(employee),
                  {"employeeId", "email"})
    IN  IF w.name = "ValidationError"
        THEN Out(d, Res(400, "Validation failed", w.paths, NoDoc))
        ELSE IF w.code = 11000
        THEN Out(d, Res(400, "Duplicate entry", w.paths, NoDoc))
        ELSE Out([d EXCEPT !.employees = w.coll, !.nextOid = @ + 1], Ok(201, employee))

\* updateEmployee
updateEmployee(d, id, body) ==
    IF ~IsObjectId(id) THEN Out(d, Fail(500, "Failed to update employee"))
    ELSE LET update == EmployeeCast(body)
             w == FindByIdAndUpdate(d.employees, id, update,
                                    EmployeeUpdateInvalid(update), {"employeeId", "email"})
         IN  IF w.name = "ValidationError"
             THEN Out(d, Res(400, "Validation failed", w.paths, NoDoc))
             ELSE IF w.code = 11000
             THEN Out(d, Res(400, "Duplicate entry", w.paths, NoDoc))
             ELSE IF ~w.found
             THEN Out(d, Fail(404, "Employee not found"))
             ELSE Out([d EXCEPT !.employees = w.coll],
                      Ok(200, PopulateSelect(TheDoc(w.coll, id), "assignedMachine",
                                             d.machines, EmployeeSelect)))

\* deleteEmployee
deleteEmployee(d, id) ==
    IF ~IsObjectId(id) THEN Out(d, Fail(500, "Failed to delete employee"))
    ELSE IF ~Exists(d.employees, id) THEN Out(d, Fail(404, "Employee not found"))
    ELSE Out([d EXCEPT !.employees = FindByIdAndDelete(@, id)],
             Ok(200, TheDoc(d.employees, id)))

-----------------------------------------------------------------------------
(* models/qualityCheck.js                                                  *)

CheckTypes == {"Visual", "Measurement", "Weight", "Dimensional", "Packaging", "Material"}

CheckResults == {"Pass", "Fail", "Rework", "Hold"}

QualityCheckPaths ==
    {"checkId", "productionRunId", "machineId", "employeeId", "checkDate", "checkType",
     "result", "defectsFound"}

\* Dates a request may carry, as days.
MaxDate == 2

Dates == 1..MaxDate

\* Date.now() at the time of the request: later than every date submitted.
Now(d) == MaxDate + d.nextOid

QualityCheckDefaults(d) == [checkDate |-> Now(d), defectsFound |-> 0]

\* defectsFound: {min: 0}
DefectsFoundMin == 0

QualityCheckCast(body) == ApplySetters(Pick(body, QualityCheckPaths), {"checkId"}, {})

\* Validators of qualityCheckSchema that fail on a new document.
QualityCheckInvalid(doc) ==
    {p \in {"checkId"} : RequiredStrFails(doc, p)}
    \cup {p \in {"productionRunId", "machineId", "employeeId", "checkDate"} :
            RequiredFails(doc, p)}
    \cup {p \in {"checkType", "result"} : RequiredWordFails(doc, p)}
    \cup {p \in {"checkType"} : EnumFails(doc, p, CheckTypes)}
    \cup {p \in {"result"} : EnumFails(doc, p, CheckResults)}
    \cup {p \in {"defectsFound"} : Has(doc, p) /\ doc[p] < DefectsFoundMin}

\* Validators of qualityCheckSchema that fail on an update.
QualityCheckUpdateInvalid(update) ==
    {p \in {"checkId"} : Has(update, p) /\ RequiredStrFails(update, p)}
    \cup {p \in {"checkType", "result"} : Has(update, p) /\ RequiredWordFails(update, p)}
    \cup {p \in {"checkType"} : EnumFails(update, p, CheckTypes)}
    \cup {p \in {"result"} : EnumFails(update, p, CheckResults)}
    \cup {p \in {"defectsFound"} : Has(update, p) /\ update[p] < DefectsFoundMin}

-----------------------------------------------------------------------------
(* controllers/qualityChecks.js                                            *)

\* The three populate() calls of a quality-check query.
PopulateCheck(d, c, runSel, machineSel, employeeSel) ==
    PopulateSelect(
        PopulateSelect(
            PopulateSelect(c, "productionRunId", d.runs, runSel),
            "machineId", d.machines, machineSel),
        "employeeId", d.employees, employeeSel)

PopulateCheckBrief(d, c) ==
    PopulateCheck(d, c, {"runId", "partName"}, {"name", "machineId"},
                  {"firstName", "lastName"})

\* The document of S that .sort({checkDate: -1}) puts first; between equal
\* dates the one stored first.
FirstByCheckDate(S) ==
    CHOOSE c \in S : \A o \in S :
        \/ c.checkDate > o.checkDate
        \/ (c.checkDate = o.checkDate /\ c._id[2] <= o._id[2])

RECURSIVE SortByCheckDateDesc(_)
SortByCheckDateDesc(S) ==
    IF S = {} THEN <<>>
    ELSE <<FirstByCheckDate(S)>> \o SortByCheckDateDesc(S \ {FirstByCheckDate(S)})

\* query.limit(n); a limit of 0 is no limit.
Limit(q, n) == IF n = 0 \/ Len(q) <= n THEN q ELSE SubSeq(q, 1, n)

\* getAllQualityChecks as it would be if any one supplied filter sufficed.
MutGetAllQualityChecksAnyFilter(d, query) ==
    LET hit(c) == \/ DOMAIN query = {}
                  \/ (Has(query, "startDate") /\ c.checkDate >= query.startDate)
                  \/ (Has(query, "endDate") /\ c.checkDate <= query.endDate)
                  \/ (TruthyWord(query, "result") /\ c.result = query.result)
                  \/ (TruthyWord(query, "checkType") /\ c.checkType = query.checkType)
        sorted == SortByCheckDateDesc({c \in d.checks : hit(c)})
    IN  Out(d, Ok(200, [i \in DOMAIN sorted |->
                          PopulateCheck(d, sorted[i], {"runId", "partName", "partNumber"},
                                        {"name", "machineId"},
                                        {"firstName", "lastName", "employeeId"})]))

\* getAllQualityChecks
getAllQualityChecks(d, query) ==
    LET hit(c) == /\ (Has(query, "startDate") => c.checkDate >= query.startDate)
                  /\ (Has(query, "endDate") => c.checkDate <= query.endDate)
                  /\ (TruthyWord(query, "result") => c.result = query.result)
                  /\ (TruthyWord(query, "checkType") => c.checkType = query.checkType)
        sorted == SortByCheckDateDesc({c \in d.checks : hit(c)})
    IN  Out(d, Ok(200, [i \in DOMAIN sorted |->
                          PopulateCheck(d, sorted[i], {"runId", "partName", "partNumber"},
                                        {"name", "machineId"},
                                        {"firstName", "lastName", "employeeId"})]))

\* getQualityCheckById
getQualityCheckById(d, id) ==
    IF ~IsObjectId(id) THEN Out(d, Fail(500, "Failed to fetch quality check"))
    ELSE IF ~Exists(d.checks, id) THEN Out(d, Fail(404, "Quality check not found"))
    ELSE Out(d, Ok(200, PopulateCheck(d, TheDoc(d.checks, id),
                            {"runId", "partName", "partNumber", "targetQty", "actualQty"},
                            {"name", "machineId", "model", "status"},
                            {"firstName", "lastName", "employeeId", "department"})))

\* Model.findById(body[f]) for a reference the body may not carry.
RefResolves(coll, body, f) == Has(body, f) /\ Exists(coll, body[f])

\* createQualityCheck
createQualityCheck(d, body) ==
    IF \E f \in {"productionRunId", "machineId", "employeeId"} :
           Has(body, f) /\ ~IsObjectId(body[f])
    THEN Out(d, Fail(500, "Failed to create quality check"))
    ELSE IF ~RefResolves(d.runs, body, "productionRunId")
    THEN Out(d, Res(400, "Invalid production run ID", {"productionRunId"}, NoDoc))
    ELSE IF ~RefResolves(d.machines, body, "machineId")
    THEN Out(d, Res(400, "Invalid machine ID", {"machineId"}, NoDoc))
    ELSE IF ~RefResolves(d.employees, body, "employeeId")
    THEN Out(d, Res(400, "Invalid employee ID", {"employeeId"}, NoDoc))
    ELSE LET qualityCheck == NewDocument(QualityCheckCast(body), QualityCheckPaths,
                                         QualityCheckDefaults(d), d.nextOid)
             w == Save(d.checks, qualityCheck, QualityCheckInvalid(qualityCheck),
                       {"checkId"})
         IN  IF w.name = "ValidationError"
             THEN Out(d, Res(400, "Validation failed", w.paths, NoDoc))
             ELSE IF w.code = 11000
             THEN Out(d, Res(400, "Duplicate entry", w.paths, NoDoc))
             ELSE Out([d EXCEPT !.checks = w.coll, !.nextOid = @ + 1],
                      Ok(201, PopulateCheckBrief(d, qualityCheck)))

\* updateQualityCheck
updateQualityCheck(d, id, body) ==
    IF Has(body, "productionRunId") /\ ~IsObjectId(body.productionRunId)
    THEN Out(d, Fail(500, "Failed to update quality check"))
    ELSE IF Has(body, "productionRunId") /\ ~Exists(d.runs, body.productionRunId)
    THEN Out(d, Res(400, "Invalid production run ID", {"productionRunId"}, NoDoc))
    ELSE IF Has(body, "machineId") /\ ~IsObjectId(body.machineId)
    THEN Out(d, Fail(500, "Failed to update quality check"))
    ELSE IF Has(body, "machineId") /\ ~Exists(d.machines, body.machineId)
    THEN Out(d, Res(400, "Invalid machine ID", {"machineId"}, NoDoc))
    ELSE IF Has(body, "employeeId") /\ ~IsObjectId(body.employeeId)
    THEN Out(d, Fail(500, "Failed to update quality check"))
    ELSE IF Has(body, "employeeId") /\ ~Exists(d.employees, body.employeeId)
    THEN Out(d, Res(400, "Invalid employee ID", {"employeeId"}, NoDoc))
    ELSE IF ~IsObjectId(id)
    THEN Out(d, Fail(500, "Failed to update quality check"))
    ELSE LET update == QualityCheckCast(body)
             w == FindByIdAndUpdate(d.checks, id, update,
                                    QualityCheckUpdateInvalid(update), {"checkId"})
         IN  IF w.name = "ValidationError"
             THEN Out(d, Res(400, "Validation failed", w.paths, NoDoc))
             ELSE IF w.code = 11000
             THEN Out(d, Res(400, "Duplicate entry", w.paths, NoDoc))
             ELSE IF ~w.found
             THEN Out(d, Fail(404, "Quality check not found"))
             ELSE Out([d EXCEPT !.checks = w.coll],
                      Ok(200, PopulateCheckBrief(d, TheDoc(w.coll, id))))

\* deleteQualityCheck
deleteQualityCheck(d, id) ==
    IF ~IsObjectId(id) THEN Out(d, Fail(500, "Failed to delete quality check"))
    ELSE IF ~Exists(d.checks, id) THEN Out(d, Fail(404, "Quality check not found"))
    ELSE Out([d EXCEPT !.checks = FindByIdAndDelete(@, id)],
             Ok(200, TheDoc(d.checks, id)))

\* getQualityChecksByResult
getQualityChecksByResult(d, result) ==
    LET sorted == SortByCheckDateDesc({c \in d.checks : c.result = result})
    IN  Out(d, Ok(200, [i \in DOMAIN sorted |-> PopulateCheckBrief(d, sorted[i])]))

\* parseInt(req.query.limit) || 10
DefaultLimit == 10

\* getRecentQualityChecks; the query carries limit as a number, or not at all.
getRecentQualityChecks(d, query) ==
    LET limit == IF TruthyNum(query, "limit") THEN query.limit ELSE DefaultLimit
        sorted == Limit(SortByCheckDateDesc(d.checks), limit)
    IN  Out(d, Ok(200, [i \in DOMAIN sorted |-> PopulateCheckBrief(d, sorted[i])]))

-----------------------------------------------------------------------------
(* routes/employees.js: the in-memory employee list                        *)

EmployeeStatuses == {"active", "on_leave", "terminated"}

EMP001 == <<"E","M","P","-","0","0","1">>
EMP002 == <<"E","M","P","-","0","0","2">>
EMP003 == <<"E","M","P","-","0","0","3">>
EMP004 == <<"E","M","P","-","0","0","4">>

\* let employees = [...]
SeedEmployees ==
    << [id |-> <<"1">>, employeeId |-> EMP001, name |-> "John Doe",
        email |-> <<"j","o","h","n","@","e","x","a","m","p","l","e",".","c","o","m">>,
        department |-> "Production", position |-> "Operator", hireDate |-> "2023-01-15", status |-> "active"],
       [id |-> <<"2">>, employeeId |-> EMP002, name |-> "Jane Smith",
        email |-> <<"j","a","n","e","@","e","x","a","m","p","l","e",".","c","o","m">>,
        department |-> "Quality", position |-> "Inspector", hireDate |-> "2023-02-20", status |-> "active"],
       [id |-> <<"3">>, employeeId |-> EMP003, name |-> "Bob Johnson",
        email |-> <<"b","o","b","@","e","x","a","m","p","l","e",".","c","o","m">>,
        department |-> "Maintenance", position |-> "Technician", hireDate |-> "2022-11-10", status |-> "on_leave"] >>

Digits == <<"1","2","3","4","5","6","7","8","9">>

\* n.toString(), for the lengths the list reaches
NumToString(n) == <<Digits[n]>>

\* employees.findIndex(emp => emp.id === id || emp.employeeId === id); 0 for -1
FindIndex(emps, id) ==
    IF \E i \in DOMAIN emps : emps[i].id = id \/ emps[i].employeeId = id
    THEN CHOOSE i \in DOMAIN emps :
            /\ (emps[i].id = id \/ emps[i].employeeId = id)
            /\ \A j \in 1..(i - 1) : ~(emps[j].id = id \/ emps[j].employeeId = id)
    ELSE 0

\* employees.splice(index, 1)
Splice(emps, index) ==
    [i \in 1..(Len(emps) - 1) |-> IF i < index THEN emps[i] ELSE emps[i + 1]]

\* body[f] || fallback, for a word
OrElse(body, f, fallback) == IF TruthyWord(body, f) THEN body[f] ELSE fallback

\* GET /employees
EmployeesList(emps) == Out(emps, Ok(200, emps))

\* GET /employees/active
EmployeesActive(emps) == Out(emps, Ok(200, SelectSeq(emps, LAMBDA e : e.status = "active")))

\* GET /employees/:id
EmployeesGetById(emps, id) ==
    IF Trim(id) = <<>> THEN Out(emps, Fail(400, "Invalid ID"))
    ELSE IF FindIndex(emps, id) = 0 THEN Out(emps, Fail(404, "Employee not found"))
    ELSE Out(emps, Ok(200, emps[FindIndex(emps, id)]))

\* (employees.length + 1).toString()
EmployeesNextId(emps) == NumToString(Len(emps) + 1)

\* POST /employees as it would be if it pushed the record before it looked at
\* the status.
MutEmployeesPostPushFirst(emps, body) ==
    IF ~TruthyStr(body, "employeeId") \/ ~TruthyWord(body, "name") \/ ~TruthyStr(body, "email")
    THEN Out(emps, Res(400, "Missing required fields", {"employeeId", "name", "email"}, NoDoc))
    ELSE IF \E i \in DOMAIN emps : emps[i].employeeId = body.employeeId
    THEN Out(emps, Fail(400, "Duplicate employee ID"))
    ELSE IF ~RouteEmailTest(body.email)
    THEN Out(emps, Fail(400, "Invalid email format"))
    ELSE LET newEmployee ==
                 [id |-> EmployeesNextId(emps),
                  employeeId |-> body.employeeId,
                  name |-> body.name,
                  email |-> body.email,
                  department |-> OrElse(body, "department", ""),
                  position |-> OrElse(body, "position", ""),
                  hireDate |-> OrElse(body, "hireDate", "today"),
                  status |-> OrElse(body, "status", "active")]
         IN  IF TruthyWord(body, "status") /\ body.status \notin EmployeeStatuses
             THEN Out(Append(emps, newEmployee), Res(400, "Invalid status", {"status"}, NoDoc))
             ELSE Out(Append(emps, newEmployee), Ok(201, newEmployee))

\* POST /employees
EmployeesPost(emps, body) ==
    IF ~TruthyStr(body, "employeeId") \/ ~TruthyWord(body, "name") \/ ~TruthyStr(body, "email")
    THEN Out(emps, Res(400, "Missing required fields", {"employeeId", "name", "email"}, NoDoc))
    ELSE IF \E i \in DOMAIN emps : emps[i].employeeId = body.employeeId
    THEN Out(emps, Fail(400, "Duplicate employee ID"))
    ELSE IF ~RouteEmailTest(body.email)
    THEN Out(emps, Fail(400, "Invalid email format"))
    ELSE IF TruthyWord(body, "status") /\ body.status \notin EmployeeStatuses
    THEN Out(emps, Res(400, "Invalid status", {"status"}, NoDoc))
    ELSE LET newEmployee ==
                 [id |-> EmployeesNextId(emps),
                  employeeId |-> body.employeeId,
                  name |-> body.name,
                  email |-> body.email,
                  department |-> OrElse(body, "department", ""),
                  position |-> OrElse(body, "position", ""),
                  hireDate |-> OrElse(body, "hireDate", "today"),
                  status |-> OrElse(body, "status", "active")]
         IN  Out(Append(emps, newEmployee), Ok(201, newEmployee))

\* PUT /employees/:id as it would be if the payload were spread last, over
\* the id and the employeeId.
MutEmployeesPutPayloadLast(emps, id, body) ==
    IF Trim(id) = <<>> THEN Out(emps, Fail(400, "Invalid ID"))
    ELSE IF FindIndex(emps, id) = 0 THEN Out(emps, Fail(404, "Employee not found"))
    ELSE LET index == FindIndex(emps, id)
             employee == emps[index]
         IN  IF /\ TruthyStr(body, "employeeId")
                /\ body.employeeId # employee.employeeId
                /\ \E i \in DOMAIN emps :
                      emps[i].employeeId = body.employeeId /\ emps[i].id # employee.id
             THEN Out(emps, Fail(400, "Duplicate employee ID"))
             ELSE IF TruthyStr(body, "email") /\ ~RouteEmailTest(body.email)
             THEN Out(emps, Fail(400, "Invalid email format"))
             ELSE IF TruthyWord(body, "status") /\ body.status \notin EmployeeStatuses
             THEN Out(emps, Res(400, "Invalid status", {"status"}, NoDoc))
             ELSE LET merged == Spread(employee, body)
                  IN  Out([emps EXCEPT ![index] = merged], Ok(200, merged))

\* PUT /employees/:id
EmployeesPut(emps, id, body) ==
    IF Trim(id) = <<>> THEN Out(emps, Fail(400, "Invalid ID"))
    ELSE IF FindIndex(emps, id) = 0 THEN Out(emps, Fail(404, "Employee not found"))
    ELSE LET index == FindIndex(emps, id)
             employee == emps[index]
         IN  IF /\ TruthyStr(body, "employeeId")
                /\ body.employeeId # employee.employeeId
                /\ \E i \in DOMAIN emps :
                      emps[i].employeeId = body.employeeId /\ emps[i].id # employee.id
             THEN Out(emps, Fail(400, "Duplicate employee ID"))
             ELSE IF TruthyStr(body, "email") /\ ~RouteEmailTest(body.email)
             THEN Out(emps, Fail(400, "Invalid email format"))
             ELSE IF TruthyWord(body, "status") /\ body.status \notin EmployeeStatuses
             THEN Out(emps, Res(400, "Invalid status", {"status"}, NoDoc))
             ELSE LET merged ==
                          Spread(Spread(employee, body),
                                 [id |-> employee.id,
                                  employeeId |-> IF TruthyStr(body, "employeeId")
                                                 THEN body.employeeId
                                                 ELSE employee.employeeId])
                  IN  Out([emps EXCEPT ![index] = merged], Ok(200, merged))

\* DELETE /employees/:id as it would be if it removed the last record that
\* matches and not the first.
MutEmployeesDeleteLastMatch(emps, id) ==
    IF Trim(id) = <<>> THEN Out(emps, Fail(400, "Invalid ID"))
    ELSE IF FindIndex(emps, id) = 0 THEN Out(emps, Fail(404, "Employee not found"))
    ELSE LET index == CHOOSE i \in DOMAIN emps :
                          /\ (emps[i].id = id \/ emps[i].employeeId = id)
                          /\ \A j \in (i + 1)..Len(emps) :
                                ~(emps[j].id = id \/ emps[j].employeeId = id)
         IN  Out(Splice(emps, index), Ok(200, emps[index]))

\* DELETE /employees/:id
EmployeesDelete(emps, id) ==
    IF Trim(id) = <<>> THEN Out(emps, Fail(400, "Invalid ID"))
    ELSE IF FindIndex(emps, id) = 0 THEN Out(emps, Fail(404, "Employee not found"))
    ELSE Out(Splice(emps, FindIndex(emps, id)), Ok(200, emps[FindIndex(emps, id)]))

-----------------------------------------------------------------------------
(* Requests: the inputs the actions draw from.  For each write route there *)
(* are the well-formed requests, which reach the store, and the malformed  *)
(* ones, which one of the handler's checks turns away.                     *)

\* The object b without the keys in K.
Drop(b, K) == [f \in (DOMAIN b) \ K |-> b[f]]

\* The object b with key f set to v.
With(b, f, v) == (f :> v) @@ b

\* The ids of the documents of a collection.
Ids(coll) == {x._id : x \in coll}

\* References to a collection: to one of its documents, or to none.
RefsTo(coll) == Ids(coll) \cup {GhostOid}

\* Path ids of a collection's routes: the same, or a segment that is no ObjectId.
PathsTo(coll) == RefsTo(coll) \cup {InvalidId}

\* {} as a request body
EmptyBody == <<>>

M1 == <<"M","1">>
M2 == <<"M","2">>

MachineBase(mid) == [machineId |-> mid, name |-> <<"P","A">>]

MachinePostBodies == {MachineBase(M1)}

MachinePostFaults ==
    {EmptyBody, [name |-> <<"P","A">>], [machineId |-> <<>>], MachineBase(<<"m","1">>),
     With(MachineBase(M2), "name", <<"P">>),
     With(MachineBase(M2), "status", "bogus")}

MachinePutBodies == {[machineId |-> M2]}

MachinePutFaults ==
    {EmptyBody, [machineId |-> <<"m","1">>], [name |-> <<"P">>],
     [status |-> "bogus"], [status |-> ""]}

R1 == <<"R","1">>
R2 == <<"R","2">>

RunBase(rid, m) ==
    [runId |-> rid, machineId |-> m, partNumber |-> <<"P","N">>,
     partName |-> <<"C","A","P">>, material |-> <<"P","P">>, targetQty |-> 5]

\* One field of a production run set to a value its handler refuses.
RunFaults ==
    {<<"runId", <<"r","1">>>>, <<"partNumber", <<"P">>>>, <<"targetQty", 0>>,
     <<"targetQty", -1>>, <<"actualQty", -1>>, <<"status", "bogus">>}

RunPostBodies(d) == {RunBase(R1, m) : m \in RefsTo(d.machines)}

RunPostFaults(d) ==
    {With(RunBase(R1, m), a[1], a[2]) : m \in RefsTo(d.machines), a \in RunFaults}
    \cup {EmptyBody, Drop(RunBase(R1, GhostOid), {"material"}), RunBase(R1, InvalidId),
          Drop(With(RunBase(R1, GhostOid), "targetQty", 0), {"material"})}

RunPutBodies(d) == {[runId |-> R2]} \cup {[machineId |-> m] : m \in RefsTo(d.machines)}

RunPutFaults ==
    {EmptyBody, [machineId |-> GhostOid, status |-> "bogus"], [machineId |-> InvalidId]}
    \cup {a[1] :> a[2] : a \in RunFaults}

RunQueries(d) ==
    {EmptyBody, [status |-> "running"]} \cup {[machineId |-> m] : m \in Ids(d.machines)}

E1 == <<"E","1">>
E2 == <<"E","2">>

MailA == <<"a","@","b",".","c","o">>

\* MailA as a client may type it
MailAUpper == <<"A","@","b",".","c","o"," ">>

EmployeeBase(eid, mail) ==
    [employeeId |-> eid, firstName |-> <<"A","l">>, lastName |-> <<"B","o">>,
     email |-> mail, department |-> "Production", role |-> "Operator"]

EmployeeCreateBodies ==
    {EmployeeBase(E1, MailA), EmployeeBase(E2, MailAUpper),
     With(EmployeeBase(E1, MailA), "assignedMachine", GhostOid)}

EmployeeUpdateBodies ==
    {[employeeId |-> E1], [email |-> MailAUpper], [assignedMachine |-> GhostOid]}

Q1 == <<"Q","1">>
Q2 == <<"Q","2">>

QualityCheckBase(cid, r, m, e) ==
    [checkId |-> cid, productionRunId |-> r, machineId |-> m, employeeId |-> e,
     checkType |-> "Visual", result |-> "Pass"]

QualityCheckCreateBodies(d) ==
    {QualityCheckBase(Q1, r, m, e) :
        r \in RefsTo(d.runs), m \in RefsTo(d.machines), e \in RefsTo(d.employees)}

QualityCheckCreateFaults(d) ==
    {With(QualityCheckBase(Q2, r, m, e), "result", "bogus") :
        r \in Ids(d.runs), m \in Ids(d.machines), e \in Ids(d.employees)}
    \cup {EmptyBody, QualityCheckBase(Q1, InvalidId, GhostOid, GhostOid)}

QualityCheckUpdateBodies ==
    {[checkId |-> Q2], [productionRunId |-> GhostOid], [machineId |-> GhostOid],
     [employeeId |-> GhostOid]}

QualityCheckUpdateFaults == {[result |-> "bogus"], [employeeId |-> InvalidId]}

QualityCheckQueries == {EmptyBody, [result |-> "Pass"], [startDate |-> MaxDate]}

RecentQueries == {EmptyBody, [limit |-> 1]}

NewMail == <<"n","@","x",".","y">>

NewHire(eid) == [employeeId |-> eid, name |-> "New Hire", email |-> NewMail]

EmployeesPostBodies ==
    {NewHire(EMP004), NewHire(EMP001), EmptyBody,
     With(NewHire(EMP004), "email", <<"n","@","x">>),
     With(NewHire(EMP004), "status", "bogus"),
     With(NewHire(EMP004), "status", "")}

EmployeesPutBodies ==
    {[employeeId |-> EMP004], [email |-> <<"n","@","x">>],
     [status |-> "bogus"], [status |-> ""]}

\* Path segments of /employees/:id: the id or the employeeId of a stored
\* record, one that matches nothing, and a blank one.
EmployeesPathInputs(emps) ==
    {emps[i].id : i \in DOMAIN emps} \cup {emps[i].employeeId : i \in DOMAIN emps}
    \cup {<<"9">>, <<" ">>}

-----------------------------------------------------------------------------
(* The state machine.                                                      *)

Init ==
    /\ db = EmptyDb
    /\ employees = SeedEmployees
    /\ last = NoResponse
    /\ inflight = {}
    /\ sessions = NoSessions

\* A handler on the database has run for `user` and left `out`.  A document
\* is only created while ObjectIds last.
DbAnswer(route, user, out) ==
    /\ out.store.nextOid <= MaxOid + 1
    /\ db' = out.store
    /\ last' = Logged(route, user, TRUE, out.res)
    /\ UNCHANGED <<employees, inflight, sessions>>

\* A route mounted without a gate.
DbRoute(route, out) == DbAnswer(route, NoUser, out)

\* router.<method>(path, isAuthenticated, handler) on the database
GatedDbRoute(route, user, out) ==
    LET gate == isAuthenticated(user)
    IN  IF gate.next
        THEN DbAnswer(route, user, out)
        ELSE /\ last' = Logged(route, user, FALSE, gate.res)
             /\ UNCHANGED <<db, employees, inflight, sessions>>

\* router.<method>(path, isAuthenticated, handler) on the in-memory list,
\* which only grows while MaxEmployees allows.
MemRoute(route, user, out) ==
    LET gate == isAuthenticated(user)
    IN  IF gate.next
        THEN /\ Len(out.store) <= MaxEmployees
             /\ employees' = out.store
             /\ last' = Logged(route, user, TRUE, out.res)
             /\ UNCHANGED <<db, inflight, sessions>>
        ELSE /\ last' = Logged(route, user, FALSE, gate.res)
             /\ UNCHANGED <<db, employees, inflight, sessions>>

\* The routes behind isAuthenticated.
GatedRoutes ==
    {"GET /employees", "GET /employees/active", "GET /employees/:id", "POST /employees",
     "PUT /employees/:id", "DELETE /employees/:id",
     "GET /quality-checks", "GET /quality-checks/recent",
     "GET /quality-checks/result/:result", "GET /quality-checks/:id",
     "POST /quality-checks", "PUT /quality-checks/:id", "DELETE /quality-checks/:id"}

HasRoleRoute(role) ==
    CASE role = "admin" -> "hasRole('admin')"
      [] role = "manager" -> "hasRole('manager')"
      [] OTHER -> "hasRole('operator')"

\* hasRole(role) in front of a handler
HasRole ==
    \E user \in {NoUser} \cup Users, role \in Roles :
        LET gate == hasRole(role, user)
        IN  /\ last' = Logged(HasRoleRoute(role), user, gate.next, gate.res)
            /\ UNCHANGED <<db, employees, inflight, sessions>>

\* routes/employees.js
ListEmployees ==
    \E user \in Callers : MemRoute("GET /employees", user, EmployeesList(employees))

ListActiveEmployees ==
    \E user \in Callers :
        MemRoute("GET /employees/active", user, EmployeesActive(employees))

GetEmployee ==
    \E user \in Callers, id \in EmployeesPathInputs(employees) :
        MemRoute("GET /employees/:id", user, EmployeesGetById(employees, id))

PostEmployee ==
    \E user \in Callers, body \in EmployeesPostBodies :
        MemRoute("POST /employees", user, EmployeesPost(employees, body))

PutEmployee ==
    \E user \in Callers, id \in EmployeesPathInputs(employees),
       body \in EmployeesPutBodies :
        MemRoute("PUT /employees/:id", user, EmployeesPut(employees, id, body))

DeleteEmployee ==
    \E user \in Callers, id \in EmployeesPathInputs(employees) :
        MemRoute("DELETE /employees/:id", user, EmployeesDelete(employees, id))

\* routes/qualityChecks.js
ListQualityChecks ==
    \E user \in Callers, q \in QualityCheckQueries :
        GatedDbRoute("GET /quality-checks", user, getAllQualityChecks(db, q))

RecentQualityChecks ==
    \E user \in Callers, q \in RecentQueries :
        GatedDbRoute("GET /quality-checks/recent", user, getRecentQualityChecks(db, q))

QualityChecksByResult ==
    \E user \in Callers, result \in {"Pass", "Fail"} :
        GatedDbRoute("GET /quality-checks/result/:result", user,
                     getQualityChecksByResult(db, result))

GetQualityCheck ==
    \E user \in Callers, id \in PathsTo(db.checks) :
        GatedDbRoute("GET /quality-checks/:id", user, getQualityCheckById(db, id))

PostQualityCheck ==
    \E user \in Callers, body \in QualityCheckCreateBodies(db) :
        GatedDbRoute("POST /quality-checks", user, createQualityCheck(db, body))

PostQualityCheckMalformed ==
    \E user \in Callers, body \in QualityCheckCreateFaults(db) :
        GatedDbRoute("POST /quality-checks", user, createQualityCheck(db, body))

PutQualityCheck ==
    \E user \in Callers, id \in RefsTo(db.checks), body \in QualityCheckUpdateBodies :
        GatedDbRoute("PUT /quality-checks/:id", user, updateQualityCheck(db, id, body))

PutQualityCheckMalformed ==
    \E user \in Callers, id \in PathsTo(db.checks),
       body \in QualityCheckUpdateBodies \cup QualityCheckUpdateFaults :
        /\ id = InvalidId \/ body \in QualityCheckUpdateFaults
        /\ GatedDbRoute("PUT /quality-checks/:id", user, updateQualityCheck(db, id, body))

DeleteQualityCheck ==
    \E user \in Callers, id \in PathsTo(db.checks) :
        GatedDbRoute("DELETE /quality-checks/:id", user, deleteQualityCheck(db, id))

\* routes/machines.js
GetMachines == DbRoute("GET /machines", MachinesList(db))

GetMachine ==
    \E id \in PathsTo(db.machines) : DbRoute("GET /machines/:id", MachinesGetById(db, id))

PostMachine ==
    \E body \in MachinePostBodies : DbRoute("POST /machines", MachinesPost(db, body))

PostMachineMalformed ==
    \E body \in MachinePostFaults : DbRoute("POST /machines", MachinesPost(db, body))

PutMachine ==
    \E id \in RefsTo(db.machines), body \in MachinePutBodies :
        DbRoute("PUT /machines/:id", MachinesPut(db, id, body))

PutMachineMalformed ==
    \E id \in PathsTo(db.machines), body \in MachinePutBodies \cup MachinePutFaults :
        /\ id = InvalidId \/ body \in MachinePutFaults
        /\ DbRoute("PUT /machines/:id", MachinesPut(db, id, body))

DeleteMachine ==
    \E id \in PathsTo(db.machines) :
        DbRoute("DELETE /machines/:id", MachinesDelete(db, id))

\* routes/productionRuns.js
GetRuns == \E q \in RunQueries(db) : DbRoute("GET /production-runs", RunsList(db, q))

GetRun ==
    \E id \in PathsTo(db.runs) : DbRoute("GET /production-runs/:id", RunsGetById(db, id))

PostRun ==
    \E body \in RunPostBodies(db) : DbRoute("POST /production-runs", RunsPost(db, body))

PostRunMalformed ==
    \E body \in RunPostFaults(db) : DbRoute("POST /production-runs", RunsPost(db, body))

PutRun ==
    \E id \in RefsTo(db.runs), body \in RunPutBodies(db) :
        DbRoute("PUT /production-runs/:id", RunsPut(db, id, body))

PutRunMalformed ==
    \E id \in PathsTo(db.runs), body \in RunPutBodies(db) \cup RunPutFaults :
        /\ id = InvalidId \/ body \in RunPutFaults
        /\ DbRoute("PUT /production-runs/:id", RunsPut(db, id, body))

DeleteRun ==
    \E id \in PathsTo(db.runs) :
        DbRoute("DELETE /production-runs/:id", RunsDelete(db, id))

\* controllers/employees.js
CreateEmployee ==
    \E body \in EmployeeCreateBodies : DbRoute("createEmployee", createEmployee(db, body))

UpdateEmployee ==
    \E id \in RefsTo(db.employees), body \in EmployeeUpdateBodies :
        DbRoute("updateEmployee", updateEmployee(db, id, body))

DeleteEmployeeById ==
    \E id \in RefsTo(db.employees) : DbRoute("deleteEmployee", deleteEmployee(db, id))

\* POST /production-runs as the event loop runs it: the handler up to its
\* `await Machine.findById`, which answers or leaves the write in flight ...
BeginPostRun ==
    \E body \in RunPostBodies(db) :
        LET check == RunsPostCheck(db, body)
        IN  IF check.status # 0
            THEN /\ last' = Logged("POST /production-runs", NoUser, TRUE, check)
                 /\ UNCHANGED <<db, employees, inflight, sessions>>
            ELSE /\ Cardinality(inflight) < MaxInflight
                 /\ inflight' = inflight \cup {[op |-> "POST", id |-> GhostOid, body |-> body]}
                 /\ UNCHANGED <<db, employees, last, sessions>>

\* ... and the rest of the handler, once other requests have had their turn.
FinishPostRun ==
    \E w \in inflight :
        /\ w.op = "POST"
        /\ LET out == RunsPostSave(db, w.body)
           IN  /\ out.store.nextOid <= MaxOid + 1
               /\ db' = out.store
               /\ last' = Logged("POST /production-runs", NoUser, TRUE, out.res)
        /\ inflight' = inflight \ {w}
        /\ UNCHANGED <<employees, sessions>>

\* PUT /production-runs/:id, split the same way.
BeginPutRun ==
    \E id \in RefsTo(db.runs), body \in RunPutBodies(db) :
        LET check == RunsPutCheck(db, id, body)
        IN  IF check.status # 0
            THEN /\ last' = Logged("PUT /production-runs/:id", NoUser, TRUE, check)
                 /\ UNCHANGED <<db, employees, inflight, sessions>>
            ELSE /\ Cardinality(inflight) < MaxInflight
                 /\ inflight' = inflight \cup {[op |-> "PUT", id |-> id, body |-> body]}
                 /\ UNCHANGED <<db, employees, last, sessions>>

FinishPutRun ==
    \E w \in inflight :
        /\ w.op = "PUT"
        /\ LET out == RunsPutSave(db, w.id, w.body)
           IN  /\ db' = out.store
               /\ last' = Logged("PUT /production-runs/:id", NoUser, TRUE, out.res)
        /\ inflight' = inflight \ {w}
        /\ UNCHANGED <<employees, sessions>>

\* The gate, the authorization stub and the routes behind the gate, with the
\* in-memory list as their store.
NextGate ==
    \/ HasRole
    \/ ListEmployees \/ ListActiveEmployees \/ GetEmployee
    \/ PostEmployee \/ PutEmployee \/ DeleteEmployee
    \/ ListQualityChecks \/ RecentQualityChecks \/ QualityChecksByResult
    \/ GetQualityCheck \/ PostQualityCheck \/ PostQualityCheckMalformed
    \/ PutQualityCheck \/ PutQualityCheckMalformed \/ DeleteQualityCheck

SpecGate == Init /\ [][NextGate]_vars

\* Machines and production runs.
NextRuns ==
    \/ GetMachines \/ GetMachine \/ PostMachine \/ PostMachineMalformed
    \/ PutMachine \/ PutMachineMalformed \/ DeleteMachine
    \/ GetRuns \/ GetRun \/ PostRun \/ PostRunMalformed
    \/ PutRun \/ PutRunMalformed \/ DeleteRun

SpecRuns == Init /\ [][NextRuns]_vars

\* The well-formed writes to every collection of the database: the documents
\* that refer to others and the documents they refer to.
NextDb ==
    \/ PostMachine \/ PutMachine \/ DeleteMachine
    \/ PostRun \/ PutRun \/ DeleteRun
    \/ CreateEmployee \/ UpdateEmployee \/ DeleteEmployeeById
    \/ PostQualityCheck \/ PutQualityCheck \/ DeleteQualityCheck

SpecDb == Init /\ [][NextDb]_vars

\* Production-run writes interleaved with the other requests.
NextRace ==
    \/ PostMachine \/ DeleteMachine
    \/ BeginPostRun \/ FinishPostRun \/ BeginPutRun \/ FinishPutRun

SpecRace == Init /\ [][NextRace]_vars

-----------------------------------------------------------------------------
(* The authentication gate and the authorization stub.                     *)

\* C1: on every route under /employees and /quality-checks, a request whose
\* session carries no authenticated identity is answered 401 with error
\* 'Unauthorized', and its handler is not entered: neither store changes.
C1_UnauthenticatedIsRefused ==
    [][ (last'.route \in GatedRoutes /\ last'.user = NoUser)
          => /\ last'.status = 401
             /\ last'.error = "Unauthorized"
             /\ ~last'.handler
             /\ db' = db
             /\ employees' = employees ]_vars

\* C1: a write to the in-memory list was refused at the gate after the list
\* had already been changed by an authenticated caller.
C1_Witness ==
    /\ last.route = "DELETE /employees/:id"
    /\ last.user = NoUser
    /\ last.status = 401
    /\ ~last.handler
    /\ employees # SeedEmployees

HasRoleRoutes == {HasRoleRoute(role) : role \in Roles}

\* C2: for an authenticated identity, whatever its e-mail domain, and any
\* role, hasRole(role) passes the request on to the handler and never
\* answers 403.
C2_HasRoleNeverForbids ==
    /\ \A user \in Users, role \in Roles :
          /\ hasRole(role, user).next
          /\ hasRole(role, user).res.status # 403
    /\ (last.route \in HasRoleRoutes /\ last.user # NoUser)
          => (last.handler /\ last.status # 403)

\* C2: an identity outside admin.com asked for the admin role and was let
\* through.
C2_Witness ==
    /\ last.route = HasRoleRoute("admin")
    /\ last.user = TestUser
    /\ last.handler

-----------------------------------------------------------------------------
(* References between documents.                                           *)

\* The body carries in f a well-formed id that resolves to no document of coll.
Unresolved(coll, body, f) ==
    Has(body, f) /\ IsObjectId(body[f]) /\ ~Exists(coll, body[f])

\* Every reference the body carries is a well-formed id.
WellFormedRefs(body, F) == \A f \in F : Has(body, f) => IsObjectId(body[f])

\* The handler answered 400 or 404 and left the store d as it was.
Refused(out, d) == out.res.status \in {400, 404} /\ out.store = d

QualityCheckRefs == {"productionRunId", "machineId", "employeeId"}

\* A reference of a quality-check body resolves to nothing.
UnresolvedCheckRef(d, body) ==
    /\ WellFormedRefs(body, QualityCheckRefs)
    /\ \/ Unresolved(d.runs, body, "productionRunId")
       \/ Unresolved(d.machines, body, "machineId")
       \/ Unresolved(d.employees, body, "employeeId")

\* C3: on every write path that carries a reference (ProductionRun.machineId;
\* QualityCheck.productionRunId, machineId, employeeId;
\* Employee.assignedMachine), a well-formed id that resolves to no stored
\* document is answered 400 or 404 and nothing is stored.
C3_UnresolvedReferenceIsRefused ==
    /\ \A body \in RunPostBodies(db) \cup RunPostFaults(db) :
          Unresolved(db.machines, body, "machineId") => Refused(RunsPost(db, body), db)
    /\ \A id \in RefsTo(db.runs), body \in RunPutBodies(db) \cup RunPutFaults :
          Unresolved(db.machines, body, "machineId") => Refused(RunsPut(db, id, body), db)
    /\ \A body \in QualityCheckCreateBodies(db) \cup QualityCheckCreateFaults(db) :
          UnresolvedCheckRef(db, body) => Refused(createQualityCheck(db, body), db)
    /\ \A id \in RefsTo(db.checks),
          body \in QualityCheckUpdateBodies \cup QualityCheckUpdateFaults :
          UnresolvedCheckRef(db, body) => Refused(updateQualityCheck(db, id, body), db)
    /\ \A body \in EmployeeCreateBodies :
          Unresolved(db.machines, body, "assignedMachine")
             => Refused(createEmployee(db, body), db)
    /\ \A id \in RefsTo(db.employees), body \in EmployeeUpdateBodies :
          Unresolved(db.machines, body, "assignedMachine")
             => Refused(updateEmployee(db, id, body), db)

\* The document is new in coll, or its field f has just been set.
FreshRef(coll, doc, f) ==
    \/ ~Exists(coll, doc._id)
    \/ TheDoc(coll, doc._id)[f] # doc[f]

\* C4: under any interleaving of requests, a production run is saved, or has
\* its machineId changed, only if the machine it refers to exists at the
\* moment of the write.
C4_RunWrittenOnlyWithMachine ==
    [][ \A r \in db'.runs :
            FreshRef(db.runs, r, "machineId") => Exists(db'.machines, r.machineId) ]_vars

\* C5: for every entity type, once DELETE {id} has succeeded, the same DELETE
\* repeated at once answers 404 and not a second success.
C5_RepeatedDeleteIsNotFound ==
    /\ \A id \in EmployeesPathInputs(employees) :
          LET first == EmployeesDelete(employees, id)
          IN  first.res.status = 200
                 => EmployeesDelete(first.store, id).res.status = 404
    /\ \A id \in PathsTo(db.machines) :
          LET first == MachinesDelete(db, id)
          IN  first.res.status = 200 => MachinesDelete(first.store, id).res.status = 404
    /\ \A id \in PathsTo(db.runs) :
          LET first == RunsDelete(db, id)
          IN  first.res.status = 200 => RunsDelete(first.store, id).res.status = 404
    /\ \A id \in PathsTo(db.checks) :
          LET first == deleteQualityCheck(db, id)
          IN  first.res.status = 200
                 => deleteQualityCheck(first.store, id).res.status = 404
    /\ \A id \in PathsTo(db.employees) :
          LET first == deleteEmployee(db, id)
          IN  first.res.status = 200 => deleteEmployee(first.store, id).res.status = 404

\* The fields of `body` named in F come back in `doc` with the values submitted.
ReturnsSubmitted(doc, body, F) == \A f \in F : Has(doc, f) /\ doc[f] = body[f]

\* The generated fields are there.
ReturnsGenerated(doc) == Has(doc, "_id") /\ Has(doc, "createdAt")

\* C6: a document created by a successful POST and fetched by GET-by-id comes
\* back with every submitted field at its submitted value, and with the
\* generated id and timestamp; for a production run the fields are runId,
\* machineId (here: the populated machine of that id), partNumber, partName,
\* material and targetQty.
C6_PostThenGetRoundTrip ==
    /\ \A body \in MachinePostBodies :
          LET out == MachinesPost(db, body)
              got == MachinesGetById(out.store, out.res.doc._id).res
          IN  out.res.status = 201
                 => /\ got.status = 200
                    /\ ReturnsGenerated(got.doc)
                    /\ ReturnsSubmitted(got.doc, body, {"machineId", "name"})
    /\ \A body \in RunPostBodies(db) :
          LET out == RunsPost(db, body)
              got == RunsGetById(out.store, out.res.doc._id).res
          IN  out.res.status = 201
                 => /\ got.status = 200
                    /\ ReturnsGenerated(got.doc)
                    /\ got.doc.machineId._id = body.machineId
                    /\ ReturnsSubmitted(got.doc, body,
                          {"runId", "partNumber", "partName", "material", "targetQty"})

-----------------------------------------------------------------------------
(* Unique fields.                                                          *)

\* No two documents of coll share the value of key.
UniqueIn(coll, key) == \A a, b \in coll : a._id # b._id => a[key] # b[key]

\* The body carries in key a value that a stored document of coll holds.
Taken(coll, body, key) == Has(body, key) /\ \E doc \in coll : doc[key] = body[key]

\* The body names a stored employee's employeeId or e-mail, once cast.
TakenEmployee(d, body) ==
    \/ Taken(d.employees, EmployeeCast(body), "employeeId")
    \/ Taken(d.employees, EmployeeCast(body), "email")

\* No unique index of the database is broken.
UniqueFieldsHold ==
    /\ UniqueIn(db.machines, "machineId")
    /\ UniqueIn(db.runs, "runId")
    /\ UniqueIn(db.checks, "checkId")
    /\ UniqueIn(db.employees, "employeeId")
    /\ UniqueIn(db.employees, "email")

\* The handler answered an error and left the store d as it was.
Rejected(out, d) == out.res.status >= 400 /\ out.store = d

\* The handler answered the 400 duplicate response and left the store as it was.
DuplicateResponse(out, d) ==
    out.res.status = 400 /\ out.res.error = "Duplicate entry" /\ out.store = d

C8_EmployeeIdsDistinct ==
    \A i, j \in DOMAIN employees :
        i # j => employees[i].employeeId # employees[j].employeeId

-----------------------------------------------------------------------------
(* Required fields and enums.                                              *)

\* The fields of F that the body does not carry.
Absent(body, F) == {f \in F : ~Has(body, f)}

\* The answer is a 400 whose missing list holds every absent field of F and no
\* field the body supplied, and nothing was stored.
NamesTheAbsent(out, d, body, F) ==
    /\ out.res.status = 400
    /\ Absent(body, F) \subseteq out.res.fields
    /\ out.res.fields \cap DOMAIN body = {}
    /\ out.store = d

\* C9: POST /machines and POST /production-runs with one or more required
\* fields absent answer 400 with a missing list that holds every absent
\* required field and no field that the request supplied, and store nothing;
\* POST /machines with an empty body names both machineId and name.
C9_MissingListsTheAbsent ==
    /\ \A body \in MachinePostBodies \cup MachinePostFaults :
          Absent(body, {"machineId", "name"}) # {}
             => NamesTheAbsent(MachinesPost(db, body), db, body, {"machineId", "name"})
    /\ \A body \in RunPostBodies(db) \cup RunPostFaults(db) :
          Absent(body, RunsRequiredFields) # {}
             => NamesTheAbsent(RunsPost(db, body), db, body, RunsRequiredFields)
    /\ MachinesPost(db, EmptyBody).res.fields = {"machineId", "name"}

\* The body asks for a status outside the closed set.
BadStatus(body, statuses) == Has(body, "status") /\ body.status \notin statuses

\* The answer is a 400 that names the status field.
NamesStatus(out) == out.res.status = 400 /\ "status" \in out.res.fields

\* The machineId the body carries, if any, is that of a stored machine.
ResolvesMachine(d, body) == Has(body, "machineId") => Exists(d.machines, body.machineId)

\* C10: for Machine, ProductionRun and Employee, a create or update request
\* whose status is outside the entity's closed set is answered with a 400 that
\* names the status field (for a run: when the machine it names exists), and
\* no stored status is ever outside the set.
C10_StatusStaysInEnum ==
    /\ \A m \in db.machines : m.status \in MachineStatuses
    /\ \A r \in db.runs : r.status \in RunStatuses
    /\ \A i \in DOMAIN employees : employees[i].status \in EmployeeStatuses
    /\ \A body \in MachinePostBodies \cup MachinePostFaults :
          BadStatus(body, MachineStatuses) => NamesStatus(MachinesPost(db, body))
    /\ \A id \in Ids(db.machines), body \in MachinePutBodies \cup MachinePutFaults :
          BadStatus(body, MachineStatuses) => NamesStatus(MachinesPut(db, id, body))
    /\ \A body \in RunPostBodies(db) \cup RunPostFaults(db) :
          (BadStatus(body, RunStatuses) /\ ResolvesMachine(db, body))
             => NamesStatus(RunsPost(db, body))
    /\ \A id \in Ids(db.runs), body \in RunPutBodies(db) \cup RunPutFaults :
          (BadStatus(body, RunStatuses) /\ ResolvesMachine(db, body))
             => NamesStatus(RunsPut(db, id, body))
    /\ \A body \in EmployeesPostBodies :
          BadStatus(body, EmployeeStatuses) => NamesStatus(EmployeesPost(employees, body))
    /\ \A i \in DOMAIN employees, body \in EmployeesPutBodies :
          BadStatus(body, EmployeeStatuses)
             => NamesStatus(EmployeesPut(employees, employees[i].id, body))

-----------------------------------------------------------------------------
(* Updates.                                                                *)

\* The handler answered 400 and left the store d as it was.
Refused400(out, d) == out.res.status = 400 /\ out.store = d

\* C11: for every entity's PUT handler (Machine, ProductionRun, Employee,
\* QualityCheck), an update of a stored document with an empty payload is
\* answered 400 and leaves the document unchanged; it is never a success.
C11_EmptyUpdateIsRefused ==
    /\ \A id \in Ids(db.machines) : Refused400(MachinesPut(db, id, EmptyBody), db)
    /\ \A id \in Ids(db.runs) : Refused400(RunsPut(db, id, EmptyBody), db)
    /\ \A id \in Ids(db.checks) : Refused400(updateQualityCheck(db, id, EmptyBody), db)
    /\ \A id \in Ids(db.employees) : Refused400(updateEmployee(db, id, EmptyBody), db)
    /\ \A i \in DOMAIN employees :
          Refused400(EmployeesPut(employees, employees[i].id, EmptyBody), employees)

-----------------------------------------------------------------------------
(* Path ids.                                                               *)

\* What the by-id routes of a collection answer for the path id `id`: GET,
\* PUT with a well-formed payload, DELETE.
MachineByIdOuts(d, id) ==
    {MachinesGetById(d, id), MachinesPut(d, id, [machineId |-> M2]), MachinesDelete(d, id)}

RunByIdOuts(d, id) ==
    {RunsGetById(d, id), RunsPut(d, id, [runId |-> R2]), RunsDelete(d, id)}

QualityCheckByIdOuts(d, id) ==
    {getQualityCheckById(d, id), updateQualityCheck(d, id, [checkId |-> Q2]),
     deleteQualityCheck(d, id)}

\* A malformed path id is answered 400 with the store untouched, and a
\* well-formed one that matches nothing is answered 404.
PathIdChecked(d, coll, id, outs) ==
    /\ ~IsObjectId(id) => \A out \in outs : out.res.status = 400 /\ out.store = d
    /\ (IsObjectId(id) /\ ~Exists(coll, id)) => \A out \in outs : out.res.status = 404

\* C12: on every by-id route (GET, PUT, DELETE) of Machine, ProductionRun and
\* QualityCheck, a path id that is no 24-hex ObjectId is answered 400 and the
\* store is untouched, never 404 or 500; a well-formed id that matches no
\* document is answered 404.
C12_PathIdIsChecked ==
    /\ \A id \in PathsTo(db.machines) :
          PathIdChecked(db, db.machines, id, MachineByIdOuts(db, id))
    /\ \A id \in PathsTo(db.runs) :
          PathIdChecked(db, db.runs, id, RunByIdOuts(db, id))
    /\ \A id \in PathsTo(db.checks) :
          PathIdChecked(db, db.checks, id, QualityCheckByIdOuts(db, id))

\* No other document of coll holds v in key.
NoOtherHolds(coll, id, key, v) == \A doc \in coll : doc._id # id => doc[key] # v

\* The document `id` of `after` holds in every field of F what it held in `before`.
KeepsFields(before, after, id, F) ==
    \A f \in F : TheDoc(after, id)[f] = TheDoc(before, id)[f]

\* C13: a PUT on a ProductionRun or QualityCheck looks up a referenced document
\* only for the reference fields its payload carries: an update that omits a
\* reference field succeeds and leaves that reference as it was, whether or
\* not the document it points to still exists, while a reference the payload
\* does carry must resolve.
C13_UpdateChecksOnlySuppliedRefs ==
    /\ \A id \in Ids(db.runs) :
          LET out == RunsPut(db, id, [runId |-> R2])
          IN  NoOtherHolds(db.runs, id, "runId", R2)
                 => /\ out.res.status = 200
                    /\ KeepsFields(db.runs, out.store.runs, id, {"machineId"})
    /\ \A id \in Ids(db.runs) : RunsPut(db, id, [machineId |-> GhostOid]).res.status = 404
    /\ \A id \in Ids(db.checks) :
          LET out == updateQualityCheck(db, id, [checkId |-> Q2])
          IN  NoOtherHolds(db.checks, id, "checkId", Q2)
                 => /\ out.res.status = 200
                    /\ KeepsFields(db.checks, out.store.checks, id, QualityCheckRefs)
    /\ \A id \in Ids(db.checks), m \in Ids(db.machines) :
          LET out == updateQualityCheck(db, id, [machineId |-> m])
          IN  /\ out.res.status = 200
              /\ TheDoc(out.store.checks, id).machineId = m
              /\ KeepsFields(db.checks, out.store.checks, id,
                             {"productionRunId", "employeeId"})
    /\ \A id \in Ids(db.checks), f \in QualityCheckRefs :
          updateQualityCheck(db, id, (f :> GhostOid)).res.status = 400

\* C13: the only stored run was updated with success although the machine it
\* refers to has been deleted.
C13_Witness ==
    /\ last.route = "PUT /production-runs/:id"
    /\ last.status = 200
    /\ Cardinality(db.runs) = 1
    /\ \A r \in db.runs : r.runId = R2 /\ ~Exists(db.machines, r.machineId)

-----------------------------------------------------------------------------
(* Deletes.                                                                *)

\* The step answered `route` with success.
Succeeds(route) == last'.route = route /\ last'.status = 200

\* C14: a successful DELETE of a Machine, ProductionRun or Employee removes
\* that one document and nothing else: every document that referred to it is
\* left as it was, dangling reference included.
C14_DeleteRemovesOneDocument ==
    [][ /\ Succeeds("DELETE /machines/:id")
           => \E m \in db.machines : db' = [db EXCEPT !.machines = @ \ {m}]
        /\ Succeeds("DELETE /production-runs/:id")
           => \E r \in db.runs : db' = [db EXCEPT !.runs = @ \ {r}]
        /\ Succeeds("deleteEmployee")
           => \E e \in db.employees : db' = [db EXCEPT !.employees = @ \ {e}] ]_vars

\* C14: a machine was deleted and a stored run still refers to it.
C14_Witness ==
    /\ last.route = "DELETE /machines/:id"
    /\ last.status = 200
    /\ \E r \in db.runs : ~Exists(db.machines, r.machineId)

-----------------------------------------------------------------------------
(* Storage failures.                                                       *)

\* Errors a database call may throw that are neither a ValidationError nor a
\* duplicate key: the connection is lost, or the server gives up on the
\* operation (code 50, MaxTimeMSExpired).  code 0 stands for no code.
StorageErrors ==
    {[name |-> "MongoNetworkError", code |-> 0], [name |-> "MongoServerError", code |-> 50]}

\* The catch block shared by the create and update routes: the duplicate key,
\* the validation error, and the route's answer to anything else.
CatchWrite(error, otherwise) ==
    IF error.code = 11000 THEN Fail(400, "Duplicate entry")
    ELSE IF error.name = "ValidationError" THEN Fail(400, "Validation failed")
    ELSE otherwise

\* catch of POST /machines
MachinesPostCatch(error) == CatchWrite(error, Fail(500, "Failed to create machine"))

\* catch of PUT /machines/:id
MachinesPutCatch(error) == CatchWrite(error, Fail(400, "Failed to update machine"))

\* catch of DELETE /machines/:id
MachinesDeleteCatch(error) == Fail(500, "Failed to delete machine")

\* catch of POST /production-runs
RunsPostCatch(error) == CatchWrite(error, Fail(500, "Failed to create production run"))

\* catch of PUT /production-runs/:id
RunsPutCatch(error) == CatchWrite(error, Fail(400, "Failed to update production run"))

\* catch of DELETE /production-runs/:id
RunsDeleteCatch(error) == Fail(500, "Failed to delete production run")

\* The database call of a request that has passed every check throws: the
\* handler's catch block answers and nothing is written.
StorageFails(route, res) ==
    /\ last' = Logged(route, NoUser, TRUE, res)
    /\ UNCHANGED <<db, employees, inflight, sessions>>

PostMachineStorageFails ==
    \E body \in MachinePostBodies, error \in StorageErrors :
        /\ MachinesPost(db, body).res.status = 201
        /\ StorageFails("POST /machines", MachinesPostCatch(error))

PutMachineStorageFails ==
    \E id \in Ids(db.machines), body \in MachinePutBodies, error \in StorageErrors :
        /\ MachinesPut(db, id, body).res.status = 200
        /\ StorageFails("PUT /machines/:id", MachinesPutCatch(error))

DeleteMachineStorageFails ==
    \E id \in Ids(db.machines), error \in StorageErrors :
        StorageFails("DELETE /machines/:id", MachinesDeleteCatch(error))

PostRunStorageFails ==
    \E body \in RunPostBodies(db), error \in StorageErrors :
        /\ RunsPost(db, body).res.status = 201
        /\ StorageFails("POST /production-runs", RunsPostCatch(error))

PutRunStorageFails ==
    \E id \in Ids(db.runs), body \in RunPutBodies(db), error \in StorageErrors :
        /\ RunsPut(db, id, body).res.status = 200
        /\ StorageFails("PUT /production-runs/:id", RunsPutCatch(error))

DeleteRunStorageFails ==
    \E id \in Ids(db.runs), error \in StorageErrors :
        StorageFails("DELETE /production-runs/:id", RunsDeleteCatch(error))

\* Machines and production runs on a database whose calls may fail.
NextFault ==
    \/ PostMachine \/ PutMachine \/ DeleteMachine
    \/ PostRun \/ PutRun \/ DeleteRun
    \/ PostMachineStorageFails \/ PutMachineStorageFails \/ DeleteMachineStorageFails
    \/ PostRunStorageFails \/ PutRunStorageFails \/ DeleteRunStorageFails

SpecFault == Init /\ [][NextFault]_vars

\* The answer is a 500-class status.
ServerError(res) == res.status >= 500

-----------------------------------------------------------------------------
(* Checks before writes.                                                   *)

\* The answer is a 4xx.
ClientError(res) == res.status \in 400..499

\* A handler that answers a 4xx has left its store as it was.
NoWriteOnClientError(out, store) == ClientError(out.res) => out.store = store

\* C16: for every create and update handler, a request answered with a 4xx
\* (validation, dangling reference, duplicate) leaves every store as it was
\* before the request.
C16_ClientErrorWritesNothing ==
    /\ \A body \in MachinePostBodies \cup MachinePostFaults :
          NoWriteOnClientError(MachinesPost(db, body), db)
    /\ \A id \in PathsTo(db.machines), body \in MachinePutBodies \cup MachinePutFaults :
          NoWriteOnClientError(MachinesPut(db, id, body), db)
    /\ \A body \in RunPostBodies(db) \cup RunPostFaults(db) :
          NoWriteOnClientError(RunsPost(db, body), db)
    /\ \A id \in PathsTo(db.runs), body \in RunPutBodies(db) \cup RunPutFaults :
          NoWriteOnClientError(RunsPut(db, id, body), db)
    /\ \A body \in QualityCheckCreateBodies(db) \cup QualityCheckCreateFaults(db) :
          NoWriteOnClientError(createQualityCheck(db, body), db)
    /\ \A id \in PathsTo(db.checks),
          body \in QualityCheckUpdateBodies \cup QualityCheckUpdateFaults :
          NoWriteOnClientError(updateQualityCheck(db, id, body), db)
    /\ \A body \in EmployeeCreateBodies :
          NoWriteOnClientError(createEmployee(db, body), db)
    /\ \A id \in RefsTo(db.employees), body \in EmployeeUpdateBodies :
          NoWriteOnClientError(updateEmployee(db, id, body), db)
    /\ \A body \in EmployeesPostBodies :
          NoWriteOnClientError(EmployeesPost(employees, body), employees)
    /\ \A id \in EmployeesPathInputs(employees), body \in EmployeesPutBodies :
          NoWriteOnClientError(EmployeesPut(employees, id, body), employees)

\* C16: an update of a stored quality check was refused for a reference that
\* resolves to nothing.
C16_Witness ==
    /\ last.route = "PUT /quality-checks/:id"
    /\ last.status = 400
    /\ last.error = "Invalid machine ID"
    /\ db.checks # {}

-----------------------------------------------------------------------------
(* Quantities.                                                             *)

\* The body supplies a non-positive targetQty or a negative actualQty.
BadQty(body) ==
    \/ Has(body, "targetQty") /\ body.targetQty <= 0
    \/ Has(body, "actualQty") /\ body.actualQty < 0

\* Every stored run has a positive targetQty and a non-negative actualQty.
StoredQtyInRange == \A r \in db.runs : r.targetQty > 0 /\ r.actualQty >= 0

-----------------------------------------------------------------------------
(* Quality checks over time.                                               *)

\* ObjectIds last for the documents the checks refer to and three checks.
MaxCheckOid == 8

Q3 == <<"Q","3">>

\* The database once a machine, a run on it and an employee have been created.
SeededDb ==
    LET machines == MachinesPost(MachinesPost(EmptyDb, MachineBase(M1)).store,
                                 MachineBase(M2)).store
        runs == RunsPost(RunsPost(machines, RunBase(R1, Oid(1))).store,
                         With(RunBase(R2, Oid(2)), "status", "running")).store
    IN  createEmployee(runs, EmployeeBase(E1, MailA)).store

InitChecks ==
    /\ db = SeededDb
    /\ employees = SeedEmployees
    /\ last = NoResponse
    /\ inflight = {}
    /\ sessions = NoSessions

\* Quality checks on a scheduled run, dated by the client or not at all.
DatedCheckBodies(d) ==
    LET scheduled == {r \in d.runs : r.status = "scheduled"}
    IN  {With(QualityCheckBase(cid, r._id, r.machineId, e), "result", result) :
            cid \in {Q1, Q2, Q3}, r \in scheduled, e \in Ids(d.employees),
            result \in {"Pass", "Fail"}}
        \cup {With(QualityCheckBase(cid, r._id, r.machineId, e), "checkDate", date) :
                cid \in {Q1, Q2, Q3}, r \in scheduled, e \in Ids(d.employees),
                date \in Dates}

\* ?limit= of GET /quality-checks/recent
RecentLimits == {EmptyBody, [limit |-> 0], [limit |-> 1], [limit |-> 2]}

\* Query strings of GET /quality-checks: any subset of the four filters.
CheckFilters ==
    {Pick(q, K) :
        q \in [startDate : Dates, endDate : Dates, result : {"Pass", "Fail"},
               checkType : {"Visual", "Weight"}],
        K \in SUBSET {"startDate", "endDate", "result", "checkType"}}

\* Query strings of GET /production-runs: any subset of the two filters.
RunFilters(d) ==
    {Pick(q, K) :
        q \in [status : {"scheduled", "running"}, machineId : RefsTo(d.machines)],
        K \in SUBSET {"status", "machineId"}}

\* router.<method>(path, isAuthenticated, handler) while ObjectIds last.
ChecksRoute(route, user, out) ==
    LET gate == isAuthenticated(user)
    IN  IF gate.next
        THEN /\ out.store.nextOid <= MaxCheckOid + 1
             /\ db' = out.store
             /\ last' = Logged(route, user, TRUE, out.res)
             /\ UNCHANGED <<employees, inflight, sessions>>
        ELSE /\ last' = Logged(route, user, FALSE, gate.res)
             /\ UNCHANGED <<db, employees, inflight, sessions>>

PostDatedQualityCheck ==
    \E user \in Callers, body \in DatedCheckBodies(db) :
        ChecksRoute("POST /quality-checks", user, createQualityCheck(db, body))

DeleteStoredQualityCheck ==
    \E user \in Callers, id \in Ids(db.checks) :
        ChecksRoute("DELETE /quality-checks/:id", user, deleteQualityCheck(db, id))

RecentOfStoredQualityChecks ==
    \E user \in Callers, q \in RecentLimits :
        ChecksRoute("GET /quality-checks/recent", user, getRecentQualityChecks(db, q))

ListFilteredQualityChecks ==
    \E user \in Callers, q \in CheckFilters :
        ChecksRoute("GET /quality-checks", user, getAllQualityChecks(db, q))

\* GET /production-runs is mounted without a gate and creates no document.
ListFilteredRuns ==
    \E q \in RunFilters(db) :
        /\ db' = RunsList(db, q).store
        /\ last' = Logged("GET /production-runs", NoUser, TRUE, RunsList(db, q).res)
        /\ UNCHANGED <<employees, inflight, sessions>>

\* The list routes over a database that holds what quality checks refer to.
NextChecks ==
    \/ PostDatedQualityCheck \/ DeleteStoredQualityCheck
    \/ RecentOfStoredQualityChecks \/ ListFilteredQualityChecks \/ ListFilteredRuns

SpecChecks == InitChecks /\ [][NextChecks]_vars

\* The ids of a list of documents.
ListedIds(list) == {list[i]._id : i \in DOMAIN list}

\* The list names stored checks, each once, latest checkDate first.
ChecksByDateDesc(list) ==
    /\ ListedIds(list) \subseteq Ids(db.checks)
    /\ Cardinality(ListedIds(list)) = Len(list)
    /\ \A i, j \in DOMAIN list : i < j => list[i].checkDate >= list[j].checkDate

\* No stored check that the list leaves out is more recent than one it holds.
HoldsTheMostRecent(list) ==
    \A i \in DOMAIN list, c \in db.checks :
        c._id \notin ListedIds(list) => c.checkDate <= list[i].checkDate

\* The lesser of two numbers.
Least(a, b) == IF a <= b THEN a ELSE b

\* C18: GET /quality-checks/recent?limit=N answers 200 with at most N checks,
\* the most recent stored checks in descending checkDate order; when limit is
\* absent the default of 10 stands for N.
C18_RecentReturnsAtMostN ==
    \A q \in RecentLimits :
        LET res == getRecentQualityChecks(db, q).res
            N == IF Has(q, "limit") THEN q.limit ELSE DefaultLimit
        IN  /\ res.status = 200
            /\ Len(res.doc) = Least(N, Cardinality(db.checks))
            /\ ChecksByDateDesc(res.doc)
            /\ HoldsTheMostRecent(res.doc)

\* The stored check satisfies every filter the query supplies.
SatisfiesFilters(c, q) ==
    /\ Has(q, "startDate") => c.checkDate >= q.startDate
    /\ Has(q, "endDate") => c.checkDate <= q.endDate
    /\ Has(q, "result") => c.result = q.result
    /\ Has(q, "checkType") => c.checkType = q.checkType

\* The stored run satisfies every filter the query supplies.
RunSatisfiesFilters(r, q) ==
    /\ Has(q, "status") => r.status = q.status
    /\ Has(q, "machineId") => r.machineId = q.machineId

\* C19: GET /quality-checks with any subset of the filters startDate, endDate,
\* result and checkType answers with exactly the stored checks that satisfy
\* every supplied filter, in descending checkDate order, and with all checks
\* when no filter is supplied; GET /production-runs answers with exactly the
\* stored runs that satisfy the supplied status and machineId filters.
C19_ListReturnsTheMatches ==
    /\ \A q \in CheckFilters :
          LET res == getAllQualityChecks(db, q).res
          IN  /\ res.status = 200
              /\ ListedIds(res.doc) = {c._id : c \in {x \in db.checks : SatisfiesFilters(x, q)}}
              /\ ChecksByDateDesc(res.doc)
    /\ ListedIds(getAllQualityChecks(db, EmptyBody).res.doc) = Ids(db.checks)
    /\ \A q \in RunFilters(db) :
          LET res == RunsList(db, q).res
          IN  /\ res.status = 200
              /\ {r._id : r \in res.doc}
                    = {r._id : r \in {x \in db.runs : RunSatisfiesFilters(x, q)}}

\* C19: the checks were listed while the store held checks that differ in
\* result and in checkDate, so that a filter tells them apart.
C19_Witness ==
    /\ last.route = "GET /quality-checks"
    /\ last.status = 200
    /\ \E a, b \in db.checks : a.result # b.result /\ a.checkDate < b.checkDate

\* Valid POST /machines bodies that leave status out.
MachinesWithoutStatus ==
    {MachineBase(mid) : mid \in {M1, M2}}
    \cup {With(MachineBase(mid), "location", <<"H","1">>) : mid \in {M1, M2}}

\* Valid POST /production-runs bodies that leave status and actualQty out.
RunsWithoutStatus(d) == {RunBase(rid, m) : rid \in {R1, R2}, m \in Ids(d.machines)}

\* The response is 201 and the document it returns is the one added to coll.
CreatedIn(out, before, after) ==
    /\ out.res.status = 201
    /\ \E doc \in after \ before :
          /\ after = before \cup {doc}
          /\ doc._id = out.res.doc._id

\* C20: a valid POST /machines that omits status answers 201 and stores and
\* returns the machine with the submitted machineId and status 'operational';
\* a production run created without status and actualQty is stored with
\* status 'scheduled' and actualQty 0.
C20_OmittedFieldsGetDefaults ==
    /\ \A body \in MachinesWithoutStatus :
          ~Taken(db.machines, body, "machineId") =>
              LET out == MachinesPost(db, body)
                  new == out.store.machines \ db.machines
              IN  /\ CreatedIn(out, db.machines, out.store.machines)
                  /\ out.res.doc \in new
                  /\ \A m \in new : m.machineId = body.machineId /\ m.status = "operational"
    /\ \A body \in RunsWithoutStatus(db) :
          ~Taken(db.runs, body, "runId") =>
              LET out == RunsPost(db, body)
                  new == out.store.runs \ db.runs
              IN  /\ CreatedIn(out, db.runs, out.store.runs)
                  /\ \A r \in new : /\ r.runId = body.runId
                                    /\ r.status = "scheduled"
                                    /\ r.actualQty = 0

\* C20: a run was just created without status and actualQty on a machine that
\* was created without status, and both are stored with their defaults.
C20_Witness ==
    /\ last.route = "POST /production-runs"
    /\ last.status = 201
    /\ \E r \in db.runs : r.status = "scheduled" /\ r.actualQty = 0
    /\ \E m \in db.machines : m.status = "operational"

-----------------------------------------------------------------------------
(* Sign-in, sign-out and session introspection (routes/auth.js), with the  *)
(* identity of a request read from its session as passport.session() does  *)
(* in a deployment (NODE_ENV is not 'test').                               *)

\* passport.serializeUser / deserializeUser: the profile is stored whole.
serializeUser(user) == user

deserializeUser(stored) == stored

\* req.user of a request that presents the cookie s.
SessionUser(store, s) == deserializeUser(store[s])

\* What the exchange with the identity provider may come to: the profile the
\* verify callback passes to done(null, profile), or a failure.
Exchanges == {[ok |-> TRUE, profile |-> u] : u \in Users} \cup {[ok |-> FALSE, profile |-> NoUser]}

\* res.redirect(location)
Redirect(location) == Res(302, "", {}, [location |-> location])

\* res.status(st).json({message, authenticated, user})
Message(st, message, authenticated, user) ==
    Res(st, "", {}, [message |-> message, authenticated |-> authenticated, user |-> user])

\* {id, displayName, email, provider} of req.user: email is emails?.[0]?.value.
UserInfo(user) == [email |-> IF Len(user.emails) >= 1 THEN user.emails[1] ELSE <<>>]

\* GET /auth/google/callback as it would be if a failed exchange still
\* logged the session in under the identity it carried in the request.
MutAuthGoogleCallbackKeepsGoing(store, s, exchange) ==
    IF exchange.ok
    THEN Out([store EXCEPT ![s] = serializeUser(exchange.profile)], Redirect("/auth/success"))
    ELSE Out([store EXCEPT ![s] = TestUser], Redirect("/auth/success"))

\* GET /auth/google/callback: passport.authenticate('google', {failureRedirect})
\* logs the profile in and passes on to the handler, or redirects.
AuthGoogleCallback(store, s, exchange) ==
    IF exchange.ok
    THEN Out([store EXCEPT ![s] = serializeUser(exchange.profile)], Redirect("/auth/success"))
    ELSE Out(store, Redirect("/auth/failure"))

\* GET /auth/google: the redirect to the consent screen.
AuthGoogle(store, s) == Out(store, Redirect("https://accounts.google.com"))

\* GET /auth/success
AuthSuccess(store, s) ==
    IF IsAuthenticatedReq(SessionUser(store, s))
    THEN Out(store, Message(200, "Authentication successful", TRUE,
                            UserInfo(SessionUser(store, s))))
    ELSE Out(store, Message(401, "Not authenticated", FALSE, NoUser))

\* GET /auth/failure
AuthFailure(store, s) == Out(store, Message(401, "Authentication failed", FALSE, NoUser))

\* GET /auth/logout as it would be if it answered without ending the session.
MutAuthLogoutKeepsSession(store, s, err, cleared) ==
    IF err
    THEN Out(IF cleared THEN [store EXCEPT ![s] = NoUser] ELSE store,
             Fail(500, "Logout failed"))
    ELSE Out(store, Message(200, "Logout successful", FALSE, NoUser))

\* GET /auth/logout: req.logout(callback), then req.session.destroy().  When
\* logout reports an error the identity may or may not have been removed.
AuthLogout(store, s, err, cleared) ==
    IF err
    THEN Out(IF cleared THEN [store EXCEPT ![s] = NoUser] ELSE store,
             Fail(500, "Logout failed"))
    ELSE Out([store EXCEPT ![s] = NoUser], Message(200, "Logout successful", FALSE, NoUser))

\* GET /auth/status
AuthStatus(store, s) ==
    LET user == SessionUser(store, s)
    IN  Out(store, Message(200, "", IsAuthenticatedReq(user),
                           IF IsAuthenticatedReq(user) THEN UserInfo(user) ELSE NoUser))

\* What the log keeps of a request that presented the cookie s: as Logged,
\* with the cookie, the identity the session carried when the request came
\* in, and the body (or the redirect) of the response; user is the identity
\* the session carries when the response is sent.
SessionLogged(route, s, handler, out) ==
    [session |-> s, before |-> SessionUser(sessions, s), body |-> out.res.doc]
        @@ Logged(route, SessionUser(out.store, s), handler, out.res)

\* A route of routes/auth.js has answered the request that presented s.
AuthRoute(route, s, out) ==
    /\ sessions' = out.store
    /\ last' = SessionLogged(route, s, TRUE, out)
    /\ UNCHANGED <<db, employees, inflight>>

GetAuthGoogle == \E s \in SessionIds : AuthRoute("GET /auth/google", s, AuthGoogle(sessions, s))

GetAuthGoogleCallback ==
    \E s \in SessionIds, exchange \in Exchanges :
        AuthRoute("GET /auth/google/callback", s, AuthGoogleCallback(sessions, s, exchange))

GetAuthSuccess == \E s \in SessionIds : AuthRoute("GET /auth/success", s, AuthSuccess(sessions, s))

GetAuthFailure == \E s \in SessionIds : AuthRoute("GET /auth/failure", s, AuthFailure(sessions, s))

GetAuthLogout ==
    \E s \in SessionIds, err, cleared \in BOOLEAN :
        AuthRoute("GET /auth/logout", s, AuthLogout(sessions, s, err, cleared))

GetAuthStatus == \E s \in SessionIds : AuthRoute("GET /auth/status", s, AuthStatus(sessions, s))

\* GET /employees and GET /quality-checks on the cookie s: the gate, then
\* the handler.
GetProtectedWithSession ==
    \E s \in SessionIds,
       req \in {<<"GET /employees", Out(db, EmployeesList(employees).res)>>,
                <<"GET /quality-checks", getAllQualityChecks(db, EmptyBody)>>} :
        LET gate == isAuthenticated(SessionUser(sessions, s))
        IN  /\ last' = SessionLogged(req[1], s, gate.next,
                                     Out(sessions, IF gate.next THEN req[2].res ELSE gate.res))
            /\ UNCHANGED <<db, employees, inflight, sessions>>

NextAuth ==
    \/ GetAuthGoogle
    \/ GetAuthGoogleCallback
    \/ GetAuthSuccess
    \/ GetAuthFailure
    \/ GetAuthLogout
    \/ GetAuthStatus
    \/ GetProtectedWithSession

SpecAuth == Init /\ [][NextAuth]_vars

GatesRefuse(store, s) ==
    /\ isAuthenticated(SessionUser(store, s)) = [next |-> FALSE, res |-> Fail(401, "Unauthorized")]
    /\ \A role \in Roles :
          hasRole(role, SessionUser(store, s)) = [next |-> FALSE, res |-> Fail(401, "Unauthorized")]

\* GET /auth/status on the cookie s reports authenticated false and user null.
ReportsSignedOut(store, s) ==
    LET res == AuthStatus(store, s).res
    IN  res.status = 200 /\ res.doc.authenticated = FALSE /\ res.doc.user = NoUser

\* C22: after GET /auth/logout has answered 'Logout successful' the session
\* is no longer authenticated: GET /auth/status reports authenticated false
\* with user null and every protected route answers 401, and this lasts
\* until a sign-in callback succeeds on that session.
C22_LogoutEndsTheSession ==
    [][ /\ \A s \in SessionIds, cleared \in BOOLEAN :
            LET out == AuthLogout(sessions, s, FALSE, cleared)
            IN  /\ out.res.status = 200
                /\ out.res.doc.message = "Logout successful"
                /\ ReportsSignedOut(out.store, s)
                /\ GatesRefuse(out.store, s)
        /\ (last.route = "GET /auth/logout" /\ last.status = 200) =>
              /\ ReportsSignedOut(sessions, last.session)
              /\ GatesRefuse(sessions, last.session)
        /\ \A t \in SessionIds :
              (ReportsSignedOut(sessions, t) /\ GatesRefuse(sessions, t)) =>
                  \/ ReportsSignedOut(sessions', t) /\ GatesRefuse(sessions', t)
                  \/ /\ last'.route = "GET /auth/google/callback"
                     /\ last'.session = t
                     /\ last'.body.location = "/auth/success"]_vars

\* C22: a session that carried an identity has just been answered 'Logout
\* successful' and carries none.
C22_Witness ==
    /\ last.route = "GET /auth/logout"
    /\ last.status = 200
    /\ last.before # NoUser
    /\ sessions[last.session] = NoUser

\* The routes behind the gate that SpecAuth requests: both only read.
ProtectedReads == {"GET /employees", "GET /quality-checks"}

\* C23: on an authenticated request the authentication gate changes neither
\* the session nor any store and only passes control to the handler; on an
\* unauthenticated request it answers 401 and neither redirects to nor
\* starts the sign-in flow.
C23_GateOnlyPassesOrRefuses ==
    [][ /\ \A s \in SessionIds :
            LET gate == isAuthenticated(SessionUser(sessions, s))
            IN  IF IsAuthenticatedReq(SessionUser(sessions, s))
                THEN gate = [next |-> TRUE, res |-> Fail(0, "")]
                ELSE /\ ~gate.next
                     /\ gate.res.status = 401
                     /\ gate.res.doc = NoDoc
        /\ (last'.route \in ProtectedReads /\ last' # last) =>
              /\ UNCHANGED <<db, employees, inflight, sessions>>
              /\ last'.user = last'.before
              /\ IF IsAuthenticatedReq(last'.before)
                 THEN last'.handler /\ last'.status = 200
                 ELSE ~last'.handler /\ last'.status = 401 /\ last'.body = NoDoc]_vars

\* C23: the gate has just refused a session that carries no identity while
\* another session is signed in.
C23_Witness ==
    /\ last.route \in ProtectedReads
    /\ last.status = 401
    /\ sessions[last.session] = NoUser
    /\ \E s \in SessionIds : sessions[s] # NoUser

-----------------------------------------------------------------------------
(* The in-memory employee list.                                            *)

\* C24: in the in-memory employee store, after any sequence of POST and
\* DELETE requests no two stored employees share the generated id.
C24_GeneratedIdsDistinct ==
    \A i, j \in DOMAIN employees : i # j => employees[i].id # employees[j].id

\* C25: in the in-memory employee store, after any sequence of POST and PUT
\* requests every stored employee's status is one of active, on_leave and
\* terminated.
C25_StoredStatusInEnum ==
    \A i \in DOMAIN employees : employees[i].status \in EmployeeStatuses

\* The record at position i answers to the path value.
Matches(emps, i, id) == emps[i].id = id \/ emps[i].employeeId = id

\* after is before without its k-th record, the others in their order.
WithoutKth(before, after, k) ==
    /\ Len(after) = Len(before) - 1
    /\ \A i \in 1..(k - 1) : after[i] = before[i]
    /\ \A i \in k..Len(after) : after[i] = before[i + 1]

\* C26: a successful DELETE /employees/{id} on the in-memory store removes
\* exactly one record, the first in store order whose id or employeeId equals
\* the path value, returns that record, and leaves every other record and
\* their relative order unchanged.
C26_DeleteRemovesFirstMatch ==
    \A id \in EmployeesPathInputs(employees) :
        LET out == EmployeesDelete(employees, id)
        IN  out.res.status = 200 =>
                \E k \in DOMAIN employees :
                    /\ Matches(employees, k, id)
                    /\ \A j \in 1..(k - 1) : ~Matches(employees, j, id)
                    /\ out.res.doc = employees[k]
                    /\ WithoutKth(employees, out.store, k)

\* C26: a DELETE has succeeded and the list holds two records that answer to
\* the same path value, the id they share, of which a DELETE removes the first.
C26_Witness ==
    /\ last.route = "DELETE /employees/:id"
    /\ last.status = 200
    /\ \E i, j \in DOMAIN employees : i < j /\ employees[i].id = employees[j].id

\* Payloads of PUT /employees/:id that carry an id, an employeeId, or neither.
EmployeesPutPayloads ==
    {[id |-> <<"7">>], [id |-> <<"7">>, employeeId |-> EMP004], [employeeId |-> EMP004],
     [employeeId |-> <<>>], [position |-> "Lead"], [status |-> "on_leave"]}

-----------------------------------------------------------------------------
(* The order of the checks of POST /production-runs.                       *)

\* Bodies of POST /production-runs with none, one or two things wrong: the
\* machine they name is stored, unknown or malformed, and up to two fields
\* are set to a value a check refuses or are left out.
RunsOrderBodies(d) ==
    LET faults == RunFaults \cup {<<"partName", <<"C">>>>, <<"material", <<"P">>>>}
        bases == {RunBase(R1, m) : m \in PathsTo(d.machines)}
    IN  bases
        \cup {With(b, a[1], a[2]) : b \in bases, a \in faults}
        \cup {With(With(b, a1[1], a1[2]), a2[1], a2[2]) :
                b \in bases, a1 \in faults, a2 \in faults}
        \cup {Drop(With(b, a[1], a[2]), {"material"}) : b \in bases, a \in faults}

\* The first failure of the body in the stated order: missing fields, runId
\* format, machine existence, partNumber, partName and material length,
\* targetQty, actualQty, status; status 0 when nothing fails.
FirstFailure(d, body) ==
    IF RunsMissing(body) # {} THEN Fail(400, "Missing required fields")
    ELSE IF ~IdRegexTest(body.runId) THEN Fail(400, "Invalid run ID format")
    ELSE IF ~IsObjectId(body.machineId) \/ ~Exists(d.machines, body.machineId)
    THEN Fail(404, "Machine not found")
    ELSE IF Len(body.partNumber) < 2 THEN Fail(400, "Invalid part number")
    ELSE IF Len(body.partName) < 2 THEN Fail(400, "Invalid part name")
    ELSE IF Len(body.material) < 2 THEN Fail(400, "Invalid material")
    ELSE IF body.targetQty <= 0 THEN Fail(400, "Invalid target quantity")
    ELSE IF Has(body, "actualQty") /\ body.actualQty < 0
    THEN Fail(400, "Invalid actual quantity")
    ELSE IF Has(body, "status") /\ body.status \notin RunStatuses
    THEN Fail(400, "Invalid status")
    ELSE Fail(0, "")

\* C28: POST /production-runs applies its checks in a fixed order and answers
\* with the first failure only: missing fields, then runId format, then
\* machine existence (404), then partNumber, partName and material length,
\* then targetQty, actualQty and status; a body with all required fields, a
\* machineId that matches no machine and an invalid status is answered 404
\* 'Machine not found'.
C28_FirstFailureAnswers ==
    \A body \in RunsOrderBodies(db) :
        LET out == RunsPost(db, body)
            first == FirstFailure(db, body)
        IN  first.status # 0 =>
                /\ out.res.status = first.status
                /\ out.res.error = first.error
                /\ out.store = db

-----------------------------------------------------------------------------
(* Route matching: a router tries its routes in the order of registration, *)
(* and a literal segment matches whatever the case of its letters.         *)

\* The path segments 'active' and 'Active' of a request under /employees
ActiveSegment == <<"a","c","t","i","v","e">>

ActiveSegmentUpper == <<"A","c","t","i","v","e">>

\* The path segments 'recent' and 'result' of a request under /quality-checks
RecentSegment == <<"str", "recent">>

ResultSegment == <<"str", "result">>

\* The employees router as it would be if /:id were registered before /active.
MutEmployeesRouterIdFirst(emps, path) ==
    IF path = <<>> THEN [route |-> "GET /employees", out |-> EmployeesList(emps)]
    ELSE IF Len(path) = 1
    THEN [route |-> "GET /employees/:id", out |-> EmployeesGetById(emps, path[1])]
    ELSE [route |-> "", out |-> Out(emps, Fail(404, "Endpoint not found"))]

\* GET under /employees: router.get('/'), router.get('/active'),
\* router.get('/:id') in that order; the route that matched and what its
\* handler left.
EmployeesRouterGet(emps, path) ==
    IF path = <<>> THEN [route |-> "GET /employees", out |-> EmployeesList(emps)]
    ELSE IF Len(path) = 1 /\ ToLowerCase(path[1]) = ActiveSegment
    THEN [route |-> "GET /employees/active", out |-> EmployeesActive(emps)]
    ELSE IF Len(path) = 1
    THEN [route |-> "GET /employees/:id", out |-> EmployeesGetById(emps, path[1])]
    ELSE [route |-> "", out |-> Out(emps, Fail(404, "Endpoint not found"))]

\* GET under /quality-checks: '/', '/recent', '/result/:result', '/:id' in
\* that order.
QualityChecksRouterGet(d, path, query) ==
    IF path = <<>>
    THEN [route |-> "GET /quality-checks", out |-> getAllQualityChecks(d, query)]
    ELSE IF path = <<RecentSegment>>
    THEN [route |-> "GET /quality-checks/recent", out |-> getRecentQualityChecks(d, query)]
    ELSE IF Len(path) = 2 /\ path[1] = ResultSegment
    THEN [route |-> "GET /quality-checks/result/:result",
          out |-> getQualityChecksByResult(d, path[2])]
    ELSE IF Len(path) = 1
    THEN [route |-> "GET /quality-checks/:id", out |-> getQualityCheckById(d, path[1])]
    ELSE [route |-> "", out |-> Out(d, Fail(404, "Endpoint not found"))]

\* Paths of GET requests under /employees.
EmployeesGetPaths(emps) ==
    {<<>>, <<ActiveSegment>>, <<ActiveSegmentUpper>>, <<EMP004>>, <<EMP004, EMP004>>}
    \cup {<<emps[i].id>> : i \in DOMAIN emps}

\* Paths of GET requests under /quality-checks.
QualityChecksGetPaths(d) ==
    {<<>>, <<RecentSegment>>, <<ResultSegment, "Pass">>, <<ResultSegment>>, <<InvalidId>>}
    \cup {<<id>> : id \in RefsTo(d.checks)}

\* Bodies of POST /employees whose employeeId is the word 'active', or not.
RoutedHires == {NewHire(ActiveSegment), NewHire(EMP004)}

RoutedGetEmployees ==
    \E user \in Callers, path \in EmployeesGetPaths(employees) :
        LET hit == EmployeesRouterGet(employees, path)
        IN  MemRoute(hit.route, user, hit.out)

RoutedGetQualityChecks ==
    \E user \in Callers, path \in QualityChecksGetPaths(db) :
        LET hit == QualityChecksRouterGet(db, path, EmptyBody)
        IN  GatedDbRoute(hit.route, user, hit.out)

RoutedPostEmployee ==
    \E user \in Callers, body \in RoutedHires :
        MemRoute("POST /employees", user, EmployeesPost(employees, body))

RoutedDeleteEmployee ==
    \E user \in Callers, i \in DOMAIN employees :
        MemRoute("DELETE /employees/:id", user, EmployeesDelete(employees, employees[i].id))

NextRouter ==
    \/ RoutedGetEmployees
    \/ RoutedGetQualityChecks
    \/ RoutedPostEmployee
    \/ RoutedDeleteEmployee

SpecRouter == Init /\ [][NextRouter]_vars

\* The record is what GET /employees/{id} answers for the path.
ReturnedById(emps, path, record) ==
    LET hit == EmployeesRouterGet(emps, path)
    IN  /\ hit.route = "GET /employees/:id"
        /\ hit.out.res.status = 200
        /\ hit.out.res.doc = record

\* The literal routes answer the literal segments: 'active' and 'recent' are
\* never handed to the /{id} handlers, and 'result' only when no result follows.
LiteralsMatchFirst ==
    /\ \A path \in {<<ActiveSegment>>, <<ActiveSegmentUpper>>} :
          EmployeesRouterGet(employees, path)
              = [route |-> "GET /employees/active", out |-> EmployeesActive(employees)]
    /\ \A q \in RecentLimits :
          QualityChecksRouterGet(db, <<RecentSegment>>, q)
              = [route |-> "GET /quality-checks/recent", out |-> getRecentQualityChecks(db, q)]
    /\ \A result \in {"Pass", "Fail"} :
          QualityChecksRouterGet(db, <<ResultSegment, result>>, EmptyBody)
              = [route |-> "GET /quality-checks/result/:result",
                 out |-> getQualityChecksByResult(db, result)]

-----------------------------------------------------------------------------
(* Concurrent requests on the in-memory list.  The handlers of              *)
(* routes/employees.js contain no await: once the event loop starts one, it *)
(* runs from its first check to its response before any other request is   *)
(* looked at.  Requests arrive in any number and are handled in any order.  *)

\* POST /employees requests that may be under way at one time.
MaxRequests == 3

\* Records the list may hold when concurrent requests add to the seeded ones.
MaxListed == 5

EMP005 == <<"E","M","P","-","0","0","5">>

\* Bodies of the concurrent POST /employees requests.
ConcurrentHires == {NewHire(EMP004), NewHire(EMP005), NewHire(EMP001)}

\* The turn of the event loop that handles r, as it would be if the handler
\* had read the list before the other requests were handled: the duplicate
\* check sees the list of the start, the push goes to the list of now.
MutEmployeesPostTurnStale(emps, pending, r) ==
    LET gate == isAuthenticated(r.user)
        out == EmployeesPost(SeedEmployees, r.body)
        res == IF gate.next THEN out.res ELSE gate.res
    IN  [employees |-> IF gate.next /\ out.res.status = 201
                       THEN Append(emps, [out.res.doc EXCEPT !.id = EmployeesNextId(emps)])
                       ELSE emps,
         pending |-> (pending \ {r}) \cup {[r EXCEPT !.status = res.status]},
         res |-> res]

\* The turn of the event loop that handles the request r: the gate and the
\* whole handler, on the list as it is now.
EmployeesPostTurn(emps, pending, r) ==
    LET gate == isAuthenticated(r.user)
        out == EmployeesPost(emps, r.body)
        res == IF gate.next THEN out.res ELSE gate.res
    IN  [employees |-> IF gate.next THEN out.store ELSE emps,
         pending |-> (pending \ {r}) \cup {[r EXCEPT !.status = res.status]},
         res |-> res]

\* A POST /employees request arrives and waits for its turn.
ArrivePostEmployee ==
    \E n \in 1..MaxRequests, user \in Callers, body \in ConcurrentHires :
        /\ \A r \in inflight : r.req # n
        /\ inflight' = inflight \cup {[req |-> n, user |-> user, body |-> body, status |-> 0]}
        /\ UNCHANGED <<db, employees, last, sessions>>

\* The event loop gives one of the waiting requests its turn.
HandlePostEmployee ==
    \E r \in inflight :
        /\ r.status = 0
        /\ LET turn == EmployeesPostTurn(employees, inflight, r)
           IN  /\ Len(turn.employees) <= MaxListed
               /\ employees' = turn.employees
               /\ inflight' = turn.pending
               /\ last' = Logged("POST /employees", r.user, r.user # NoUser, turn.res)
        /\ UNCHANGED <<db, sessions>>

NextConcurrent ==
    \/ ArrivePostEmployee
    \/ HandlePostEmployee

SpecConcurrent == Init /\ [][NextConcurrent]_vars

\* C30: each in-memory employee handler runs to completion without yielding
\* between its checks and its write, so under any interleaving of concurrent
\* requests two POST /employees carrying the same employeeId cannot both
\* succeed, and no two stored employees come to share an employeeId.
C30_ConcurrentPostsOneWinner ==
    /\ \A a, b \in inflight :
          (a.req # b.req /\ a.body.employeeId = b.body.employeeId)
              => ~(a.status = 201 /\ b.status = 201)
    /\ \A i, j \in DOMAIN employees :
          i # j => employees[i].employeeId # employees[j].employeeId

\* C30: of two requests carrying the same employeeId that were under way
\* together, one was answered 201 and the other 400.
C30_Witness ==
    \E a, b \in inflight :
        /\ a.req # b.req
        /\ a.body.employeeId = b.body.employeeId
        /\ a.status = 201
        /\ b.status = 400
        /\ \E c \in inflight : c.status = 0

====
